---------------------------- MODULE Spec2Model ----------------------------
(***************************************************************************)
(* Model of the opencode-orca dispatch pipeline: the autonomy gate         *)
(* (classifyAction, determineGate, enforcePreDispatchGate), the            *)
(* retry-on-failure executor (shouldAutoRetry, executeWithRetry) and the   *)
(* dispatch orchestrator (dispatchToAgent, executeDispatch).               *)
(*                                                                         *)
(* The specifications share the pure operators:                            *)
(*   PolicySpec      applies the pure decision functions to drawn inputs;  *)
(*   RetrySpec       runs executeWithRetry against an arbitrary executor;  *)
(*   Spec            runs one dispatchToAgent call against an arbitrary    *)
(*                   worker client;                                        *)
(*   ValidationSpec  runs validateWithRetry against an arbitrary           *)
(*                   correction sender;                                    *)
(*   GateSpec        classifies tasks and enforces the gate on them;       *)
(*   QuestionSpec    runs the pending-question registry against            *)
(*                   arbitrary events;                                     *)
(*   QuestionLiveSpec  is QuestionSpec with the continuation of            *)
(*                   askQuestion weakly fair;                              *)
(*   ConcurrentSpec  runs two dispatchToAgent calls interleaved;           *)
(*   MergeSpec       applies mergeAgentConfigs to drawn arguments;         *)
(*   EventSpec       delivers events to one plugin instance's event hook.  *)
(***************************************************************************)
EXTENDS Integers, Sequences, FiniteSets, TLC

(***************************************************************************)
(* Bounds of the model.                                                    *)
(***************************************************************************)
\* largest maxRetries handed to shouldAutoRetry / executeWithRetry
MaxRetriesBound == 3
\* largest attempts value handed to shouldAutoRetry on its own
MaxAttemptsBound == 4
\* largest autonomyConfig.maxRetries of a dispatch
MaxDispatchRetries == 2
\* largest validationConfig.maxRetries of a dispatch
MaxValidationRetries == 2
\* largest number of enforcePreDispatchGate calls of one caller
MaxGateCalls == 2
\* largest number of askQuestion calls
MaxQuestions == 3
\* largest autonomyConfig.maxRetries of the dispatches in flight together
MaxConcurrentRetries == 1

\* events delivered to one plugin instance's event hook
MaxEvents == 4

(***************************************************************************)
(* Enumerations.                                                           *)
(***************************************************************************)
\* schemas/errors.ts: the closed error-code enum
ErrorCodes ==
  { "VALIDATION_ERROR", "UNKNOWN_AGENT", "SESSION_NOT_FOUND", "AGENT_ERROR",
    "TIMEOUT", "AUTONOMY_BLOCKED", "APPROVAL_REQUIRED" }

\* config AutonomyLevel
AutonomyLevels == { "supervised", "assisted", "autonomous" }

\* a level value outside the AutonomyLevel type (reaches the default branches)
UnrecognizedLevel == "unrecognized"

Levels == AutonomyLevels \cup { UnrecognizedLevel }

\* autonomy.ts ActionClassification
Classifications == { "routine", "significant", "dangerous" }

\* autonomy.ts GateDecision
GateDecisions == { "proceed", "require_approval", "block" }

\* a decision value outside the GateDecision type (reaches the default branch)
UnrecognizedDecision == "unrecognized"

\* envelope variants that carry a session_id (requests)
RequestTypes == { "task", "user_input", "interrupt" }

\* envelope variants a worker answers with
ResponseTypes ==
  { "answer", "plan", "question", "escalation", "failure", "checkpoint", "result" }

MessageTypes == RequestTypes \cup ResponseTypes

(***************************************************************************)
(* retry.ts: the retryability tables.                                      *)
(***************************************************************************)
\* mutant: TIMEOUT left out of the retryable set
RETRYABLE_ERROR_CODES_NoTimeout == { "AGENT_ERROR", "VALIDATION_ERROR" }

RETRYABLE_ERROR_CODES == { "AGENT_ERROR", "TIMEOUT", "VALIDATION_ERROR" }

\* mutant: TIMEOUT is listed as non-retryable as well
NON_RETRYABLE_ERROR_CODES_WithTimeout ==
  { "UNKNOWN_AGENT", "SESSION_NOT_FOUND", "AUTONOMY_BLOCKED", "APPROVAL_REQUIRED", "TIMEOUT" }

NON_RETRYABLE_ERROR_CODES ==
  { "UNKNOWN_AGENT", "SESSION_NOT_FOUND", "AUTONOMY_BLOCKED", "APPROVAL_REQUIRED" }

(***************************************************************************)
(* autonomy.ts: determineGate, the switch over the level.                  *)
(***************************************************************************)
\* mutant: the assisted branch lost its test for significant
determineGate_AssistedSkipsSignificant(level, classification) ==
  CASE level = "supervised" ->
         IF classification = "dangerous" THEN "block" ELSE "require_approval"
    [] level = "assisted" ->
         IF classification = "dangerous" THEN "block" ELSE "proceed"
    [] level = "autonomous" ->
         IF classification = "dangerous" THEN "require_approval" ELSE "proceed"
    [] OTHER -> "require_approval"

\* mutant: the bodies of the assisted and autonomous cases are exchanged
determineGate_CasesExchanged(level, classification) ==
  CASE level = "supervised" ->
         IF classification = "dangerous" THEN "block" ELSE "require_approval"
    [] level = "autonomous" ->
         IF classification = "dangerous" THEN "block"
         ELSE IF classification = "significant" THEN "require_approval"
         ELSE "proceed"
    [] level = "assisted" ->
         IF classification = "dangerous" THEN "require_approval" ELSE "proceed"
    [] OTHER -> "require_approval"

\* mutant: autonomous proceeds for every classification
determineGate_AutonomousAlwaysProceeds(level, classification) ==
  CASE level = "supervised" ->
         IF classification = "dangerous" THEN "block" ELSE "require_approval"
    [] level = "assisted" ->
         IF classification = "dangerous" THEN "block"
         ELSE IF classification = "significant" THEN "require_approval"
         ELSE "proceed"
    [] level = "autonomous" -> "proceed"
    [] OTHER -> "require_approval"

\* mutant: supervised lets routine tasks through
determineGate_SupervisedRoutineProceeds(level, classification) ==
  CASE level = "supervised" ->
         IF classification = "dangerous" THEN "block"
         ELSE IF classification = "significant" THEN "require_approval"
         ELSE "proceed"
    [] level = "assisted" ->
         IF classification = "dangerous" THEN "block"
         ELSE IF classification = "significant" THEN "require_approval"
         ELSE "proceed"
    [] level = "autonomous" ->
         IF classification = "dangerous" THEN "require_approval" ELSE "proceed"
    [] OTHER -> "require_approval"

determineGate(level, classification) ==
  CASE level = "supervised" ->
         IF classification = "dangerous" THEN "block" ELSE "require_approval"
    [] level = "assisted" ->
         IF classification = "dangerous" THEN "block"
         ELSE IF classification = "significant" THEN "require_approval"
         ELSE "proceed"
    [] level = "autonomous" ->
         IF classification = "dangerous" THEN "require_approval" ELSE "proceed"
    [] OTHER -> "require_approval"

(***************************************************************************)
(* retry.ts: shouldAutoRetry.  A reason is the tuple of the parts of the   *)
(* template literal the code builds.                                       *)
(***************************************************************************)
\* the decision records of shouldAutoRetry
RetryReason(retry, reason) == [ shouldRetry |-> retry, reason |-> reason ]

\* mutant: the test for a non-retryable code is missing
shouldAutoRetry_NoNonRetryableTest(ctx) ==
  LET errorCode == ctx.failure.payload.code
      isRetryable == errorCode \in RETRYABLE_ERROR_CODES
  IN  IF ctx.attempts >= ctx.maxRetries
      THEN RetryReason(FALSE, << "Maximum retry attempts (", ToString(ctx.maxRetries),
                                 ") exceeded" >>)
      ELSE IF ctx.autonomyLevel = "supervised"
      THEN RetryReason(FALSE, << "Supervised mode requires user confirmation for all failures" >>)
      ELSE IF ctx.autonomyLevel = "assisted"
      THEN IF isRetryable
           THEN RetryReason(TRUE, << "Auto-retrying ", errorCode, " in assisted mode (attempt ",
                                     ToString(ctx.attempts + 1), "/", ToString(ctx.maxRetries), ")" >>)
           ELSE RetryReason(FALSE, << "Error code ", errorCode,
                                      " requires user attention in assisted mode" >>)
      ELSE IF ctx.autonomyLevel = "autonomous"
      THEN IF isRetryable
           THEN RetryReason(TRUE, << "Auto-retrying ", errorCode, " in autonomous mode (attempt ",
                                     ToString(ctx.attempts + 1), "/", ToString(ctx.maxRetries), ")" >>)
           ELSE RetryReason(FALSE, << "Error code ", errorCode, " is a permanent failure" >>)
      ELSE RetryReason(FALSE, << "Unknown autonomy level: ", ctx.autonomyLevel >>)

\* mutant: the error code is never looked at; assisted and autonomous retry
\* any failure
shouldAutoRetry_IgnoresCode(ctx) ==
  IF ctx.attempts >= ctx.maxRetries
  THEN RetryReason(FALSE, << "Maximum retry attempts (", ToString(ctx.maxRetries),
                             ") exceeded" >>)
  ELSE IF ctx.autonomyLevel = "supervised"
  THEN RetryReason(FALSE, << "Supervised mode requires user confirmation for all failures" >>)
  ELSE IF ctx.autonomyLevel \in { "assisted", "autonomous" }
  THEN RetryReason(TRUE, << "Auto-retrying ", ctx.failure.payload.code, " (attempt ",
                            ToString(ctx.attempts + 1), "/", ToString(ctx.maxRetries), ")" >>)
  ELSE RetryReason(FALSE, << "Unknown autonomy level: ", ctx.autonomyLevel >>)

\* mutant: the supervised branch is a copy of the assisted one
shouldAutoRetry_SupervisedRetries(ctx) ==
  LET errorCode == ctx.failure.payload.code
      isRetryable == errorCode \in RETRYABLE_ERROR_CODES
  IN  IF ctx.attempts >= ctx.maxRetries
      THEN RetryReason(FALSE, << "Maximum retry attempts (", ToString(ctx.maxRetries),
                                 ") exceeded" >>)
      ELSE IF errorCode \in NON_RETRYABLE_ERROR_CODES
      THEN RetryReason(FALSE, << "Error code ", errorCode, " is not retryable" >>)
      ELSE IF ctx.autonomyLevel \in { "supervised", "assisted", "autonomous" }
      THEN IF isRetryable
           THEN RetryReason(TRUE, << "Auto-retrying ", errorCode, " (attempt ",
                                     ToString(ctx.attempts + 1), "/", ToString(ctx.maxRetries), ")" >>)
           ELSE RetryReason(FALSE, << "Error code ", errorCode, " requires user attention" >>)
      ELSE RetryReason(FALSE, << "Unknown autonomy level: ", ctx.autonomyLevel >>)

shouldAutoRetry(ctx) ==
  LET errorCode == ctx.failure.payload.code
      autonomyLevel == ctx.autonomyLevel
      attempts_ == ctx.attempts
      maxRetries_ == ctx.maxRetries
      isRetryable == errorCode \in RETRYABLE_ERROR_CODES
  IN  IF attempts_ >= maxRetries_
      THEN [ shouldRetry |-> FALSE,
             reason |-> << "Maximum retry attempts (", ToString(maxRetries_), ") exceeded" >> ]
      ELSE IF errorCode \in NON_RETRYABLE_ERROR_CODES
      THEN [ shouldRetry |-> FALSE,
             reason |-> << "Error code ", errorCode, " is not retryable" >> ]
      ELSE IF autonomyLevel = "supervised"
      THEN [ shouldRetry |-> FALSE,
             reason |-> << "Supervised mode requires user confirmation for all failures" >> ]
      ELSE IF autonomyLevel = "assisted"
      THEN IF isRetryable
           THEN [ shouldRetry |-> TRUE,
                  reason |-> << "Auto-retrying ", errorCode, " in assisted mode (attempt ",
                                ToString(attempts_ + 1), "/", ToString(maxRetries_), ")" >> ]
           ELSE [ shouldRetry |-> FALSE,
                  reason |-> << "Error code ", errorCode,
                                " requires user attention in assisted mode" >> ]
      ELSE IF autonomyLevel = "autonomous"
      THEN IF isRetryable
           THEN [ shouldRetry |-> TRUE,
                  reason |-> << "Auto-retrying ", errorCode, " in autonomous mode (attempt ",
                                ToString(attempts_ + 1), "/", ToString(maxRetries_), ")" >> ]
           ELSE [ shouldRetry |-> FALSE,
                  reason |-> << "Error code ", errorCode, " is a permanent failure" >> ]
      ELSE [ shouldRetry |-> FALSE,
             reason |-> << "Unknown autonomy level: ", autonomyLevel >> ]

(***************************************************************************)
(* Message envelopes.  A failure carries payload.code and payload.message; *)
(* a message is the tuple of the parts of the string.                      *)
(***************************************************************************)
FailureMessage(code, message) ==
  [ type |-> "failure", payload |-> [ code |-> code, message |-> message ] ]

\* retry.test.ts createFailure / createResult: what a test executor returns on
\* its n-th invocation
AttemptFailure(code, n) ==
  FailureMessage(code, << "Attempt ", ToString(n), " failed" >>)

AttemptSuccess(type, n) ==
  [ type |-> type, payload |-> [ content |-> << "Attempt ", ToString(n), " succeeded" >> ] ]

\* every envelope an executor may resolve to on its n-th invocation
ExecutorResults(n) ==
  { AttemptFailure(c, n) : c \in ErrorCodes }
    \cup { AttemptSuccess(t, n) : t \in MessageTypes \ { "failure" } }

InitialFailures == { FailureMessage(c, << "Test failure" >>) : c \in ErrorCodes }

NoEnvelope == [ type |-> "none" ]

NoDecision == [ pending |-> TRUE ]

(***************************************************************************)
(* autonomy.ts: classifyAction.  A prompt is the set of the words and       *)
(* idioms that occur in it, as written; the patterns are case-insensitive.  *)
(***************************************************************************)
ROUTINE_AGENTS == { "researcher", "reviewer" }

SIGNIFICANT_AGENTS == { "coder", "tester", "document-writer", "strategist" }

DANGEROUS_AGENTS == { }

DANGEROUS_PATTERNS ==
  { "delete", "drop", "remove all", "truncate", "wipe", "destroy", "rm -rf",
    "force push", "--force", "reset --hard" }

SIGNIFICANT_PATTERNS ==
  { "modify", "update", "change", "create", "write", "implement", "refactor",
    "fix", "add", "migrat", "deploy", "install" }

\* the words a prompt of the model is made of
PromptWords == { "Delete", "fix" }

\* the /i flag of the patterns: a word as the pattern sees it
LowerCase(word) == IF word = "Delete" THEN "delete" ELSE word

\* pattern.test(prompt)
PatternTest(pattern, prompt) == \E word \in prompt : LowerCase(word) = pattern

\* mutant: the agent tables are consulted before the prompt patterns
classifyAction_AgentBeforePattern(task, agents) ==
  LET targetAgentId == task.payload.agent_id
      prompt == task.payload.prompt
  IN  IF targetAgentId \in DANGEROUS_AGENTS THEN "dangerous"
      ELSE IF targetAgentId \in SIGNIFICANT_AGENTS THEN "significant"
      ELSE IF targetAgentId \in ROUTINE_AGENTS THEN "routine"
      ELSE IF \E pattern \in DANGEROUS_PATTERNS : PatternTest(pattern, prompt)
      THEN "dangerous"
      ELSE IF \E pattern \in SIGNIFICANT_PATTERNS : PatternTest(pattern, prompt)
      THEN "significant"
      ELSE "routine"

classifyAction(task, agents) ==
  LET targetAgentId == task.payload.agent_id
      prompt == task.payload.prompt
  IN  IF \E pattern \in DANGEROUS_PATTERNS : PatternTest(pattern, prompt)
      THEN "dangerous"
      ELSE IF targetAgentId \in DANGEROUS_AGENTS THEN "dangerous"
      ELSE IF targetAgentId \in SIGNIFICANT_AGENTS THEN "significant"
      ELSE IF \E pattern \in SIGNIFICANT_PATTERNS : PatternTest(pattern, prompt)
      THEN "significant"
      ELSE IF targetAgentId \in ROUTINE_AGENTS THEN "routine"
      ELSE "routine"

\* autonomy.ts DEFAULT_AUTONOMY_CONFIG
DEFAULT_AUTONOMY_LEVEL == "supervised"

DefaultMaxRetries == 2

DEFAULT_AUTONOMY_CONFIG ==
  [ level |-> DEFAULT_AUTONOMY_LEVEL, maxRetries |-> DefaultMaxRetries ]

(***************************************************************************)
(* gates.ts: the pre-dispatch gate enforcer.  randomUUID() and the clock    *)
(* are the tokens "random-uuid" and "now".                                  *)
(***************************************************************************)
createBlockedFailure(ctx) ==
  [ type |-> "failure",
    session_id |-> "random-uuid",
    timestamp |-> "now",
    payload |->
      [ agent_id |-> ctx.task.payload.agent_id,
        code |-> "AUTONOMY_BLOCKED",
        message |-> << "Operation blocked: ", ctx.classification,
                       " action not permitted in ", ctx.autonomyLevel, " mode" >>,
        cause |-> << "The operation targeting agent ", ctx.task.payload.agent_id,
                     " was classified as ", ctx.classification,
                     " and is blocked under the current autonomy level ",
                     ctx.autonomyLevel >> ] ]

\* mutant: the decision id is drawn from the random source
createApprovalEscalation_RandomDecisionId(ctx) ==
  [ type |-> "escalation",
    session_id |-> ctx.task.session_id,
    timestamp |-> "now",
    payload |->
      [ agent_id |-> "orca",
        decision_id |-> << "approval-", "random-uuid" >>,
        decision |-> << "Approve ", ctx.classification, " action to ",
                        ctx.task.payload.agent_id, "?" >>,
        options |-> << [ label |-> "Approve", value |-> "approve" ],
                       [ label |-> "Reject", value |-> "reject" ],
                       [ label |-> "Approve All (switch to autonomous)",
                         value |-> "approve_all" ] >>,
        context |-> << "Target Agent: ", ctx.task.payload.agent_id,
                       "Action Type: ", ctx.classification,
                       "Autonomy Level: ", ctx.autonomyLevel,
                       "Task Prompt: ", ctx.task.payload.prompt >> ] ]

createApprovalEscalation(ctx) ==
  [ type |-> "escalation",
    session_id |-> ctx.task.session_id,
    timestamp |-> "now",
    payload |->
      [ agent_id |-> "orca",
        decision_id |-> << "approval-", ctx.task.session_id >>,
        decision |-> << "Approve ", ctx.classification, " action to ",
                        ctx.task.payload.agent_id, "?" >>,
        options |-> << [ label |-> "Approve", value |-> "approve" ],
                       [ label |-> "Reject", value |-> "reject" ],
                       [ label |-> "Approve All (switch to autonomous)",
                         value |-> "approve_all" ] >>,
        context |-> << "Target Agent: ", ctx.task.payload.agent_id,
                       "Action Type: ", ctx.classification,
                       "Autonomy Level: ", ctx.autonomyLevel,
                       "Task Prompt: ", ctx.task.payload.prompt >> ] ]

\* mutant: the require_approval case falls through to allowed
enforcePreDispatchGate_ApprovalAllowed(ctx) ==
  CASE ctx.decision \in { "proceed", "require_approval" } -> [ allowed |-> TRUE ]
    [] ctx.decision = "block" ->
         [ allowed |-> FALSE, response |-> createBlockedFailure(ctx) ]
    [] OTHER -> [ allowed |-> FALSE, response |-> createApprovalEscalation(ctx) ]

\* mutant: the default case fails open
enforcePreDispatchGate_DefaultAllows(ctx) ==
  CASE ctx.decision = "proceed" -> [ allowed |-> TRUE ]
    [] ctx.decision = "require_approval" ->
         [ allowed |-> FALSE, response |-> createApprovalEscalation(ctx) ]
    [] ctx.decision = "block" ->
         [ allowed |-> FALSE, response |-> createBlockedFailure(ctx) ]
    [] OTHER -> [ allowed |-> TRUE ]

enforcePreDispatchGate(ctx) ==
  CASE ctx.decision = "proceed" -> [ allowed |-> TRUE ]
    [] ctx.decision = "require_approval" ->
         [ allowed |-> FALSE, response |-> createApprovalEscalation(ctx) ]
    [] ctx.decision = "block" ->
         [ allowed |-> FALSE, response |-> createBlockedFailure(ctx) ]
    [] OTHER -> [ allowed |-> FALSE, response |-> createApprovalEscalation(ctx) ]

\* gates.ts transformResponse: pass-through
transformResponse(response, level, classification) == response

(***************************************************************************)
(* validation.ts (its source is not part of the repository snapshot; the   *)
(* operators follow sections 4.1 and 4.2 of the specification).  A text is *)
(* [prose |-> words] when it is not JSON and [json |-> value] when it is.  *)
(***************************************************************************)
createFailureMessage(code, message, cause) ==
  [ type |-> "failure",
    session_id |-> "random-uuid",
    timestamp |-> "now",
    payload |-> [ code |-> code, message |-> message, cause |-> cause ] ]

\* createFailureMessage without a cause: the field is omitted
createFailureMessageNoCause(code, message) ==
  [ type |-> "failure",
    session_id |-> "random-uuid",
    timestamp |-> "now",
    payload |-> [ code |-> code, message |-> message ] ]

\* the VALIDATION_ERROR failure of validateWithRetry, agent id attached
createValidationFailure(agentId, error) ==
  [ type |-> "failure",
    session_id |-> "random-uuid",
    timestamp |-> "now",
    payload |-> [ agent_id |-> agentId, code |-> "VALIDATION_ERROR",
                  message |-> << "Validation failed" >>, cause |-> error ] ]

wrapAsResultMessage(text, agentId) ==
  [ type |-> "result",
    session_id |-> "random-uuid",
    timestamp |-> "now",
    payload |-> [ agent_id |-> agentId, content |-> text ] ]

IsJson(text) == "json" \in DOMAIN text

\* the variants whose envelope carries a session_id: the requests, and the
\* result variant (wrapAsResultMessage builds one with a session_id)
SessionEnvelopeTypes == RequestTypes \cup { "result" }

\* the strict envelope schema: unknown keys are rejected and required keys
\* enforced
SchemaAccepts(value) ==
  /\ "type" \in DOMAIN value
  /\ \/ value.type \in SessionEnvelopeTypes
        /\ DOMAIN value = { "type", "session_id", "timestamp", "payload" }
     \/ value.type \in ResponseTypes \ SessionEnvelopeTypes
        /\ DOMAIN value = { "type", "timestamp", "payload" }

\* mutant: a schema failure is reported as not retryable
validateMessage_SchemaNotRetryable(raw) ==
  IF ~ IsJson(raw)
  THEN [ success |-> FALSE, retryable |-> TRUE,
         error |-> << "Response is not valid JSON" >> ]
  ELSE IF ~ SchemaAccepts(raw.json)
  THEN [ success |-> FALSE, retryable |-> FALSE,
         error |-> << "Message validation failed" >> ]
  ELSE [ success |-> TRUE, message |-> raw.json ]

validateMessage(raw) ==
  IF ~ IsJson(raw)
  THEN [ success |-> FALSE, retryable |-> TRUE,
         error |-> << "Response is not valid JSON" >> ]
  ELSE IF ~ SchemaAccepts(raw.json)
  THEN [ success |-> FALSE, retryable |-> TRUE,
         error |-> << "Message validation failed" >> ]
  ELSE [ success |-> TRUE, message |-> raw.json ]

\* mutant: the retry budget is tested before the first validation
ValidateFirst_BudgetBeforeValidation(raw, agentId, config, hasSender) ==
  LET v == validateMessage(raw)
  IN  IF ~ hasSender \/ config.maxRetries <= 0
      THEN [ done |-> TRUE,
             message |-> createValidationFailure(agentId, << "Response is not valid JSON" >>) ]
      ELSE IF v.success THEN [ done |-> TRUE, message |-> v.message ]
      ELSE IF config.wrapPlainText /\ ~ IsJson(raw)
      THEN [ done |-> TRUE, message |-> wrapAsResultMessage(raw, agentId) ]
      ELSE [ done |-> FALSE ]

\* mutant: plain text is wrapped only when no correction can be asked for
ValidateFirst_WrapsAsLastResort(raw, agentId, config, hasSender) ==
  LET v == validateMessage(raw)
  IN  IF v.success THEN [ done |-> TRUE, message |-> v.message ]
      ELSE IF hasSender /\ config.maxRetries > 0 THEN [ done |-> FALSE ]
      ELSE IF config.wrapPlainText /\ ~ IsJson(raw)
      THEN [ done |-> TRUE, message |-> wrapAsResultMessage(raw, agentId) ]
      ELSE [ done |-> TRUE, message |-> createValidationFailure(agentId, v.error) ]

\* mutant: a missing correction sender is not tested for
ValidateFirst_IgnoresMissingSender(raw, agentId, config, hasSender) ==
  LET v == validateMessage(raw)
  IN  IF v.success THEN [ done |-> TRUE, message |-> v.message ]
      ELSE IF config.wrapPlainText /\ ~ IsJson(raw)
      THEN [ done |-> TRUE, message |-> wrapAsResultMessage(raw, agentId) ]
      ELSE IF config.maxRetries <= 0
      THEN [ done |-> TRUE, message |-> createValidationFailure(agentId, v.error) ]
      ELSE [ done |-> FALSE ]

\* validateWithRetry up to its first correction prompt: an envelope to return,
\* or the decision to enter the correction loop
ValidateFirst(raw, agentId, config, hasSender) ==
  LET v == validateMessage(raw)
  IN  IF v.success THEN [ done |-> TRUE, message |-> v.message ]
      ELSE IF config.wrapPlainText /\ ~ IsJson(raw)
      THEN [ done |-> TRUE, message |-> wrapAsResultMessage(raw, agentId) ]
      ELSE IF ~ hasSender \/ config.maxRetries <= 0
      THEN [ done |-> TRUE, message |-> createValidationFailure(agentId, v.error) ]
      ELSE [ done |-> FALSE ]

\* mutant: the loop counts the initial validation against the budget's end,
\* sending one correction more
ValidateCorrection_OneMore(raw, agentId, config, attempt) ==
  LET v == validateMessage(raw)
  IN  IF v.success THEN [ done |-> TRUE, message |-> v.message ]
      ELSE IF attempt <= config.maxRetries THEN [ done |-> FALSE ]
      ELSE [ done |-> TRUE, message |-> createValidationFailure(agentId, v.error) ]

\* mutant: the loop does not stop at a success before the budget is used up
ValidateCorrection_NoEarlyStop(raw, agentId, config, attempt) ==
  LET v == validateMessage(raw)
  IN  IF attempt < config.maxRetries THEN [ done |-> FALSE ]
      ELSE IF v.success THEN [ done |-> TRUE, message |-> v.message ]
      ELSE [ done |-> TRUE, message |-> createValidationFailure(agentId, v.error) ]

\* validateWithRetry after the attempt-th correction reply: an envelope to
\* return, or the decision to send another correction prompt
ValidateCorrection(raw, agentId, config, attempt) ==
  LET v == validateMessage(raw)
  IN  IF v.success THEN [ done |-> TRUE, message |-> v.message ]
      ELSE IF attempt < config.maxRetries THEN [ done |-> FALSE ]
      ELSE [ done |-> TRUE, message |-> createValidationFailure(agentId, v.error) ]

(***************************************************************************)
(* dispatch.ts helpers.                                                    *)
(***************************************************************************)
\* parseTaskMessage: the task, or null for anything that is no task envelope
Null == [ null |-> TRUE ]

parseTaskMessage(messageJson) ==
  IF IsJson(messageJson)
       /\ "type" \in DOMAIN messageJson.json
       /\ messageJson.json.type = "task"
       /\ DOMAIN messageJson.json = { "type", "session_id", "timestamp", "payload" }
  THEN messageJson.json
  ELSE Null

\* extractTextFromParts: the text of the text-typed parts (the model's replies
\* hold at most one); no such part gives the empty string
EmptyText == [ prose |-> "" ]

\* a worker's text that is not empty and fails validation
InvalidText(text) == text # EmptyText /\ ~ validateMessage(text).success

TextParts(parts) ==
  SelectSeq(parts, LAMBDA part : part.type = "text" /\ "text" \in DOMAIN part)

extractTextFromParts(parts) ==
  IF Len(TextParts(parts)) = 0 THEN EmptyText ELSE TextParts(parts)[1].text

\* JSON.stringify
JsonStringify(value) == [ json |-> value ]

(***************************************************************************)
(* State.                                                                  *)
(***************************************************************************)
VARIABLES
  \* PolicySpec: the inputs drawn and the outputs computed
  gateLevel, gateClassification, gateDecision, retryCtx, retryDecision,
  \* executeWithRetry: parameters, locals, position, outcome
  failure, autonomyLevel, maxRetries, currentFailure, attempts,
  retryPc, retryResult,
  \* executeWithRetry: observation of the executor (invocations, results)
  executorCalls, executorLog,
  \* dispatchToAgent: arguments (messageJson, ctx) and the abort signal
  messageJson, ctx, aborted,
  \* dispatchToAgent / executeDispatch: position, locals, returned string
  pc, classification, decision, sessionId, correctionAttempts, dispatchResult,
  \* the worker client: calls received, and the sessions the prompts of the
  \* current execution were sent to
  sessionsCreated, promptsSent, promptedSessions,
  \* the worker client: whether every text it has answered with was empty,
  \* the calls it has answered or thrown from, and whether every call so far
  \* was answered and every text answered was non-empty and failed validation
  workerAlwaysEmpty, repliesReceived, workerAlwaysInvalid,
  \* validateWithRetry: arguments, position, last validateMessage result,
  \* returned envelope
  rawInput, validatedAgent, validationConfig, hasRetrySender, validationPc,
  validation, validationResult,
  \* validateWithRetry: observation of the correction sender (calls, replies)
  senderCalls, senderReplies,
  \* the gate on its own: the task classified, its classification, the level and
  \* decision the enforcer is called with, and the calls of the enforcer so far
  classifiedTask, taskClassification, enforcedLevel, enforcedDecision, gateLog,
  \* the pending-question registry: the map from request id to waiting promise,
  \* the promises askQuestion has made, and for each call the question the server
  \* created for it and whether an event for that question has been handled since
  pending, promises, questions,
  \* dispatchToAgent calls in flight together: the locals of each call, and the
  \* worker client's replies to the calls of each
  dispatches, workerReplies,
  \* mergeAgentConfigs: its two arguments and its return value
  mergeDefaults, mergeUserAgents, mergeResult,
  \* createOrcaPlugin's event hook: closure variables, events delivered, setTimeout callbacks
  configLoadError, hasRunUpdateNotifier, deliveredEvents, scheduled, ran

policyVars == << gateLevel, gateClassification, gateDecision, retryCtx, retryDecision >>

retryVars ==
  << failure, autonomyLevel, maxRetries, currentFailure, attempts,
     retryPc, retryResult, executorCalls, executorLog >>

dispatchVars ==
  << messageJson, ctx, aborted, pc, classification, decision, sessionId,
     correctionAttempts, dispatchResult, sessionsCreated, promptsSent, promptedSessions,
     workerAlwaysEmpty, repliesReceived, workerAlwaysInvalid >>

validationVars ==
  << rawInput, validatedAgent, validationConfig, hasRetrySender, validationPc,
     validation, validationResult, senderCalls, senderReplies >>

gateVars == << classifiedTask, taskClassification, enforcedLevel, enforcedDecision, gateLog >>

questionVars == << pending, promises, questions >>

concurrentVars == << dispatches, workerReplies >>

mergeVars == << mergeDefaults, mergeUserAgents, mergeResult >>

eventVars == << configLoadError, hasRunUpdateNotifier, deliveredEvents, scheduled, ran >>

vars == << policyVars, retryVars, dispatchVars, validationVars, gateVars, questionVars, concurrentVars, mergeVars, eventVars >>

\* the variables of a part that a specification does not run
PolicyIdle ==
  /\ gateLevel = "idle"
  /\ gateClassification = "idle"
  /\ gateDecision = "idle"
  /\ retryCtx = NoDecision
  /\ retryDecision = NoDecision

ValidationIdle ==
  /\ rawInput = Null
  /\ validatedAgent = "idle"
  /\ validationConfig = Null
  /\ hasRetrySender = FALSE
  /\ validationPc = "idle"
  /\ validation = NoDecision
  /\ validationResult = NoEnvelope
  /\ senderCalls = 0
  /\ senderReplies = << >>

GateIdle ==
  /\ classifiedTask = Null
  /\ taskClassification = "idle"
  /\ enforcedLevel = "idle"
  /\ enforcedDecision = "idle"
  /\ gateLog = << >>

QuestionIdle ==
  /\ pending = << >>
  /\ promises = << >>
  /\ questions = << >>

ConcurrentIdle ==
  /\ dispatches = << >>
  /\ workerReplies = << >>

MergeIdle ==
  /\ mergeDefaults = << >>
  /\ mergeUserAgents = [ given |-> FALSE, agents |-> << >> ]
  /\ mergeResult = [ returned |-> FALSE, agents |-> << >> ]

EventIdle ==
  /\ configLoadError = "undefined"
  /\ hasRunUpdateNotifier = FALSE
  /\ deliveredEvents = << >>
  /\ scheduled = << >>
  /\ ran = 0

RetryIdle ==
  /\ failure = NoEnvelope
  /\ autonomyLevel = "idle"
  /\ maxRetries = 0
  /\ currentFailure = NoEnvelope
  /\ attempts = 0
  /\ retryPc = "idle"
  /\ retryResult = NoEnvelope
  /\ executorCalls = 0
  /\ executorLog = << >>

DispatchIdle ==
  /\ messageJson = Null
  /\ ctx = Null
  /\ aborted = FALSE
  /\ pc = "idle"
  /\ classification = "idle"
  /\ decision = "idle"
  /\ sessionId = "idle"
  /\ correctionAttempts = 0
  /\ dispatchResult = Null
  /\ sessionsCreated = 0
  /\ promptsSent = 0
  /\ promptedSessions = << >>
  /\ workerAlwaysEmpty = TRUE
  /\ repliesReceived = 0
  /\ workerAlwaysInvalid = TRUE

(***************************************************************************)
(* PolicySpec: the pure decision functions applied to drawn inputs.        *)
(***************************************************************************)
PolicyInit ==
  /\ gateLevel \in Levels
  /\ gateClassification \in Classifications
  /\ gateDecision = "pending"
  /\ retryCtx \in [ failure : InitialFailures, autonomyLevel : Levels,
                     attempts : 0 .. MaxAttemptsBound, maxRetries : 0 .. MaxRetriesBound ]
  /\ retryDecision = NoDecision
  /\ RetryIdle
  /\ DispatchIdle
  /\ ValidationIdle
  /\ GateIdle
  /\ QuestionIdle
  /\ ConcurrentIdle
  /\ MergeIdle
  /\ EventIdle

ApplyDetermineGate ==
  /\ gateDecision = "pending"
  /\ gateDecision' = determineGate(gateLevel, gateClassification)
  /\ UNCHANGED << gateLevel, gateClassification, retryCtx, retryDecision, retryVars,
                  dispatchVars, validationVars, gateVars, questionVars, concurrentVars, mergeVars, eventVars >>

ApplyShouldAutoRetry ==
  /\ retryDecision = NoDecision
  /\ retryDecision' = shouldAutoRetry(retryCtx)
  /\ UNCHANGED << gateLevel, gateClassification, gateDecision, retryCtx, retryVars,
                  dispatchVars, validationVars, gateVars, questionVars, concurrentVars, mergeVars, eventVars >>

PolicyNext == ApplyDetermineGate \/ ApplyShouldAutoRetry

PolicySpec == PolicyInit /\ [][PolicyNext]_vars

(***************************************************************************)
(* RetrySpec: executeWithRetry(failure, autonomyLevel, maxRetries,         *)
(* executor) against an executor that may resolve to any envelope or       *)
(* reject.                                                                 *)
(***************************************************************************)
\* mutant: the loop condition stops one attempt early
RetryLoopHead_StopsOneEarly(cur, level, att, max) ==
  IF att + 1 < max
  THEN IF shouldAutoRetry([ failure |-> cur, autonomyLevel |-> level,
                            attempts |-> att, maxRetries |-> max ]).shouldRetry
       THEN "invoke"
       ELSE "return"
  ELSE "return"

\* mutant: the loop never looks at the budget and always hands attempt 0 to
\* shouldAutoRetry
RetryLoopHead_NoBudget(cur, level, att, max) ==
  IF shouldAutoRetry([ failure |-> cur, autonomyLevel |-> level,
                       attempts |-> 0, maxRetries |-> max ]).shouldRetry
  THEN "invoke"
  ELSE "return"

\* retry.ts 153-164: the head of the while loop, run with the current failure
\* and attempt count: invoke the executor, or return the current failure
RetryLoopHead(cur, level, att, max) ==
  IF att < max
  THEN IF shouldAutoRetry([ failure |-> cur, autonomyLevel |-> level,
                            attempts |-> att, maxRetries |-> max ]).shouldRetry
       THEN "invoke"
       ELSE "return"
  ELSE "return"

\* mutant: on loop exit the failure the loop was entered with is returned
RetryFrom_ReturnsInitialFailure(cur, att, level, max) ==
  IF RetryLoopHead(cur, level, att, max) = "invoke"
  THEN /\ currentFailure' = cur
       /\ attempts' = att + 1
       /\ executorCalls' = executorCalls + 1
       /\ retryPc' = "executing"
       /\ retryResult' = retryResult
  ELSE /\ currentFailure' = cur
       /\ attempts' = att
       /\ executorCalls' = executorCalls
       /\ retryPc' = "returned"
       /\ retryResult' = failure

\* the loop from its head up to the next await or the return
RetryFrom(cur, att, level, max) ==
  IF RetryLoopHead(cur, level, att, max) = "invoke"
  THEN /\ currentFailure' = cur
       /\ attempts' = att + 1
       /\ executorCalls' = executorCalls + 1
       /\ retryPc' = "executing"
       /\ retryResult' = retryResult
  ELSE /\ currentFailure' = cur
       /\ attempts' = att
       /\ executorCalls' = executorCalls
       /\ retryPc' = "returned"
       /\ retryResult' = cur

RetryInit ==
  /\ failure \in InitialFailures
  /\ autonomyLevel \in Levels
  /\ maxRetries \in 0 .. MaxRetriesBound
  /\ currentFailure = NoEnvelope
  /\ attempts = 0
  /\ retryPc = "called"
  /\ retryResult = NoEnvelope
  /\ executorCalls = 0
  /\ executorLog = << >>
  /\ PolicyIdle
  /\ DispatchIdle
  /\ ValidationIdle
  /\ GateIdle
  /\ QuestionIdle
  /\ ConcurrentIdle
  /\ MergeIdle
  /\ EventIdle

\* retry.ts 144-168: entry, up to the first await or the return
ExecuteWithRetry ==
  /\ retryPc = "called"
  /\ RetryFrom(failure, 0, autonomyLevel, maxRetries)
  /\ UNCHANGED << failure, autonomyLevel, maxRetries, executorLog, policyVars, validationVars, gateVars, questionVars, concurrentVars, mergeVars, eventVars,
                  dispatchVars >>

\* mutant: a successful result does not end the loop's bookkeeping: the failure
\* at hand is returned in its place
ExecutorResolves_ReturnsCurrentFailure ==
  /\ retryPc = "executing"
  /\ \E result \in ExecutorResults(executorCalls) :
       /\ executorLog' = Append(executorLog, result)
       /\ IF result.type # "failure"
          THEN /\ retryPc' = "returned"
               /\ retryResult' = currentFailure
               /\ UNCHANGED << currentFailure, attempts, executorCalls >>
          ELSE RetryFrom(result, attempts, autonomyLevel, maxRetries)
  /\ UNCHANGED << failure, autonomyLevel, maxRetries, policyVars, validationVars, gateVars, questionVars, concurrentVars, mergeVars, eventVars, dispatchVars >>

\* retry.ts 168-177: the executor resolves; a non-failure is returned, a failure
\* becomes the current failure and the loop goes round
ExecutorResolves ==
  /\ retryPc = "executing"
  /\ \E result \in ExecutorResults(executorCalls) :
       /\ executorLog' = Append(executorLog, result)
       /\ IF result.type # "failure"
          THEN /\ retryPc' = "returned"
               /\ retryResult' = result
               /\ UNCHANGED << currentFailure, attempts, executorCalls >>
          ELSE RetryFrom(result, attempts, autonomyLevel, maxRetries)
  /\ UNCHANGED << failure, autonomyLevel, maxRetries, policyVars, validationVars, gateVars, questionVars, concurrentVars, mergeVars, eventVars, dispatchVars >>

\* retry.ts 168: the executor rejects; the rejection leaves executeWithRetry
ExecutorRejects ==
  /\ retryPc = "executing"
  /\ retryPc' = "thrown"
  /\ UNCHANGED << failure, autonomyLevel, maxRetries, currentFailure, attempts,
                  retryResult, executorCalls, executorLog, policyVars, validationVars, gateVars, questionVars, concurrentVars, mergeVars, eventVars, dispatchVars >>

RetryNext == ExecuteWithRetry \/ ExecutorResolves \/ ExecutorRejects

RetrySpec == RetryInit /\ [][RetryNext]_vars

(***************************************************************************)
(* Spec: one dispatchToAgent(messageJson, ctx) call against a worker       *)
(* client whose session.create and session.prompt may answer anything or   *)
(* throw.  The flow is suspended at pc = "create" (session.create),        *)
(* "prompt" (the prompt of executeDispatch) and "correction" (the          *)
(* re-prompt of the correction sender).                                    *)
(***************************************************************************)
\* the agents of the registry, and every agent id a task may name
RegisteredAgents == { "coder", "researcher", "helper" }

AgentIds == RegisteredAgents \cup { "ghost" }

TaskSessionId == "550e8400-e29b-41d4-a716-446655440000"

ParentSessionId == "parent-session"

\* a task envelope, with or without parent_session_id
TaskMessage(agentId, prompt, withParent) ==
  [ type |-> "task",
    session_id |-> TaskSessionId,
    timestamp |-> "2024-01-01T00:00:00.000Z",
    payload |->
      IF withParent
      THEN [ agent_id |-> agentId, prompt |-> prompt, parent_session_id |-> ParentSessionId ]
      ELSE [ agent_id |-> agentId, prompt |-> prompt ] ]

\* the strings handed to dispatchToAgent
MessageJsons ==
  { [ prose |-> "not valid json" ], JsonStringify([ type |-> "task" ]) }
    \cup { JsonStringify(TaskMessage(a, p, w)) :
             a \in AgentIds, p \in SUBSET PromptWords, w \in BOOLEAN }

\* the dispatch contexts: ctx.autonomyConfig may be missing
ValidationConfigs ==
  [ maxRetries : 0 .. MaxValidationRetries, wrapPlainText : BOOLEAN ]

AutonomyConfigs == [ level : Levels, maxRetries : 0 .. MaxDispatchRetries ]

DispatchContexts ==
  { [ agents |-> RegisteredAgents, validationConfig |-> v, autonomyConfig |-> a ] :
      v \in ValidationConfigs, a \in AutonomyConfigs }
    \cup { [ agents |-> RegisteredAgents, validationConfig |-> v ] : v \in ValidationConfigs }

\* the codes of the failures a worker reports: two retryable, two not
WorkerFailureCodes == { "AGENT_ERROR", "TIMEOUT", "UNKNOWN_AGENT", "APPROVAL_REQUIRED" }

\* the envelopes a worker may write out as JSON
WorkerEnvelopes ==
  { [ type |-> t, timestamp |-> "worker-time", payload |-> [ agent_id |-> "worker" ] ] :
      t \in { "answer", "escalation" } }
    \cup { [ type |-> "failure", timestamp |-> "worker-time",
             payload |-> [ code |-> c, message |-> << "worker failure" >> ] ] :
             c \in WorkerFailureCodes }
    \cup { [ type |-> t, session_id |-> "worker-uuid", timestamp |-> "worker-time",
             payload |-> [ agent_id |-> "worker" ] ] : t \in { "task", "result" } }

\* the texts a worker may answer with
WorkerTexts ==
  { EmptyText, [ prose |-> "Here is my plain text response" ],
    JsonStringify([ type |-> "result" ]) }
    \cup { JsonStringify(e) : e \in WorkerEnvelopes }

\* promptResult.data?.parts ?? []: no parts, a tool part alone, or a tool part
\* and one text part
PromptResults ==
  { << >>, << [ type |-> "tool" ] >> }
    \cup { << [ type |-> "tool" ], [ type |-> "text", text |-> t ] >> : t \in WorkerTexts }

\* ctx.autonomyConfig ?? DEFAULT_AUTONOMY_CONFIG
AutonomyConfigOf(c) ==
  IF "autonomyConfig" \in DOMAIN c THEN c.autonomyConfig ELSE DEFAULT_AUTONOMY_CONFIG

Task == parseTaskMessage(messageJson)

\* the variables the dispatch flow writes after the gate
flowVars ==
  << pc, dispatchResult, sessionId, correctionAttempts, sessionsCreated, promptsSent,
     promptedSessions >>

Init ==
  /\ messageJson \in MessageJsons
  /\ ctx \in DispatchContexts
  /\ aborted = FALSE
  /\ pc = "called"
  /\ classification = "none"
  /\ decision = "none"
  /\ sessionId = "none"
  /\ correctionAttempts = 0
  /\ dispatchResult = Null
  /\ sessionsCreated = 0
  /\ promptsSent = 0
  /\ promptedSessions = << >>
  /\ workerAlwaysEmpty = TRUE
  /\ repliesReceived = 0
  /\ workerAlwaysInvalid = TRUE
  /\ PolicyIdle
  /\ RetryIdle
  /\ ValidationIdle
  /\ GateIdle
  /\ QuestionIdle
  /\ ConcurrentIdle
  /\ MergeIdle
  /\ EventIdle

\* dispatchToAgent returns the serialized envelope
Return(envelope) ==
  /\ pc' = "done"
  /\ dispatchResult' = JsonStringify(envelope)
  /\ UNCHANGED << sessionId, correctionAttempts, sessionsCreated, promptsSent,
                  promptedSessions >>

\* mutant: a session is created even when the task names a parent session
StartExecuteDispatch_AlwaysCreates ==
  /\ correctionAttempts' = 0
  /\ dispatchResult' = dispatchResult
  /\ sessionId' = "none"
  /\ sessionsCreated' = sessionsCreated + 1
  /\ promptsSent' = promptsSent
  /\ promptedSessions' = << >>
  /\ pc' = "create"

\* mutant: a re-execution reuses the session of the attempt before it
StartExecuteDispatch_ReusesSession ==
  /\ correctionAttempts' = 0
  /\ dispatchResult' = dispatchResult
  /\ IF "parent_session_id" \in DOMAIN Task.payload
     THEN /\ sessionId' = Task.payload.parent_session_id
          /\ promptsSent' = promptsSent + 1
          /\ promptedSessions' = << sessionId' >>
          /\ sessionsCreated' = sessionsCreated
          /\ pc' = "prompt"
     ELSE IF sessionId # "none"
     THEN /\ sessionId' = sessionId
          /\ promptsSent' = promptsSent + 1
          /\ promptedSessions' = << sessionId' >>
          /\ sessionsCreated' = sessionsCreated
          /\ pc' = "prompt"
     ELSE /\ sessionId' = "none"
          /\ sessionsCreated' = sessionsCreated + 1
          /\ promptsSent' = promptsSent
          /\ promptedSessions' = << >>
          /\ pc' = "create"

\* executeDispatch 63-92: up to its first await (session.create without a
\* parent session, session.prompt with one)
StartExecuteDispatch ==
  /\ correctionAttempts' = 0
  /\ dispatchResult' = dispatchResult
  /\ IF "parent_session_id" \in DOMAIN Task.payload
     THEN /\ sessionId' = Task.payload.parent_session_id
          /\ promptsSent' = promptsSent + 1
          /\ promptedSessions' = << sessionId' >>
          /\ sessionsCreated' = sessionsCreated
          /\ pc' = "prompt"
     ELSE /\ sessionId' = "none"
          /\ sessionsCreated' = sessionsCreated + 1
          /\ promptsSent' = promptsSent
          /\ promptedSessions' = << >>
          /\ pc' = "create"

\* dispatchToAgent 199-203: transform and serialize the final envelope
Finish(envelope) ==
  Return(transformResponse(envelope, AutonomyConfigOf(ctx).level, classification))

\* mutant: a VALIDATION_ERROR failure of the first execution is returned without
\* going through executeWithRetry
ExecuteDispatchResolves_ValidationFailureNotRetried(envelope) ==
  IF retryPc = "idle"
  THEN IF envelope.type = "failure" /\ envelope.payload.code # "VALIDATION_ERROR"
       THEN /\ failure' = envelope
            /\ autonomyLevel' = AutonomyConfigOf(ctx).level
            /\ maxRetries' = AutonomyConfigOf(ctx).maxRetries
            /\ UNCHANGED executorLog
            /\ RetryFrom(envelope, 0, AutonomyConfigOf(ctx).level,
                         AutonomyConfigOf(ctx).maxRetries)
            /\ IF retryPc' = "executing" THEN StartExecuteDispatch ELSE Finish(retryResult')
       ELSE /\ Finish(envelope)
            /\ UNCHANGED retryVars
  ELSE /\ UNCHANGED << failure, autonomyLevel, maxRetries, executorLog >>
       /\ IF envelope.type # "failure"
          THEN /\ retryPc' = "returned"
               /\ retryResult' = envelope
               /\ UNCHANGED << currentFailure, attempts, executorCalls >>
               /\ Finish(envelope)
          ELSE /\ RetryFrom(envelope, attempts, autonomyLevel, maxRetries)
               /\ IF retryPc' = "executing" THEN StartExecuteDispatch ELSE Finish(retryResult')

\* dispatchToAgent 186-197 and executeWithRetry 150-177: executeDispatch has
\* resolved to an envelope, in the first execution or as the retry executor
\* (executorLog is the record kept by the executor of RetrySpec; the executor
\* here is executeDispatch, which keeps none)
ExecuteDispatchResolves(envelope) ==
  IF retryPc = "idle"
  THEN IF envelope.type = "failure"
       THEN /\ failure' = envelope
            /\ autonomyLevel' = AutonomyConfigOf(ctx).level
            /\ maxRetries' = AutonomyConfigOf(ctx).maxRetries
            /\ UNCHANGED executorLog
            /\ RetryFrom(envelope, 0, AutonomyConfigOf(ctx).level,
                         AutonomyConfigOf(ctx).maxRetries)
            /\ IF retryPc' = "executing" THEN StartExecuteDispatch ELSE Finish(retryResult')
       ELSE /\ Finish(envelope)
            /\ UNCHANGED retryVars
  ELSE /\ UNCHANGED << failure, autonomyLevel, maxRetries, executorLog >>
       /\ IF envelope.type # "failure"
          THEN /\ retryPc' = "returned"
               /\ retryResult' = envelope
               /\ UNCHANGED << currentFailure, attempts, executorCalls >>
               /\ Finish(envelope)
          ELSE /\ RetryFrom(envelope, attempts, autonomyLevel, maxRetries)
               /\ IF retryPc' = "executing" THEN StartExecuteDispatch ELSE Finish(retryResult')

\* mutant: the catch lets the exception through when the signal is set
Catch_RethrowsWhenAborted(message) ==
  /\ IF aborted
     THEN /\ pc' = "thrown"
          /\ UNCHANGED << dispatchResult, sessionId, correctionAttempts, sessionsCreated,
                          promptsSent, promptedSessions >>
     ELSE Return(createFailureMessage("AGENT_ERROR", << "Agent execution failed" >>, message))
  /\ retryPc' = IF retryPc = "executing" THEN "thrown" ELSE retryPc
  /\ UNCHANGED << failure, autonomyLevel, maxRetries, currentFailure, attempts,
                  retryResult, executorCalls, executorLog >>

\* mutant: the catch does not look at the abort signal
Catch_IgnoresAbort(message) ==
  /\ Return(createFailureMessage("AGENT_ERROR", << "Agent execution failed" >>, message))
  /\ retryPc' = IF retryPc = "executing" THEN "thrown" ELSE retryPc
  /\ UNCHANGED << failure, autonomyLevel, maxRetries, currentFailure, attempts,
                  retryResult, executorCalls, executorLog >>

\* dispatchToAgent 204-220: an exception reaches the catch
Catch(message) ==
  /\ IF aborted
     THEN Return(createFailureMessageNoCause("TIMEOUT",
                   << "Request timed out or was cancelled" >>))
     ELSE Return(createFailureMessage("AGENT_ERROR", << "Agent execution failed" >>, message))
  /\ retryPc' = IF retryPc = "executing" THEN "thrown" ELSE retryPc
  /\ UNCHANGED << failure, autonomyLevel, maxRetries, currentFailure, attempts,
                  retryResult, executorCalls, executorLog >>

\* mutant: the gate is enforced before the registry is consulted
DispatchToAgent_GateBeforeRegistry ==
  /\ pc = "called"
  /\ UNCHANGED << messageJson, ctx, aborted, workerAlwaysEmpty, repliesReceived,
                  workerAlwaysInvalid, policyVars, validationVars,
                  gateVars, questionVars, concurrentVars, mergeVars, eventVars, retryVars >>
  /\ IF Task = Null
     THEN /\ Return(createFailureMessage("VALIDATION_ERROR",
                       << "Invalid task message format" >>,
                       << "Message must be a valid TaskMessage JSON envelope" >>))
          /\ UNCHANGED << classification, decision >>
     ELSE LET cls == classifyAction(Task, ctx.agents)
              dec == determineGate(AutonomyConfigOf(ctx).level, cls)
              gateResult ==
                enforcePreDispatchGate([ task |-> Task,
                                         autonomyLevel |-> AutonomyConfigOf(ctx).level,
                                         classification |-> cls,
                                         decision |-> dec ])
          IN  /\ classification' = cls
              /\ decision' = dec
              /\ IF ~ gateResult.allowed
                 THEN Return(gateResult.response)
                 ELSE IF Task.payload.agent_id \notin ctx.agents
                 THEN Return(createFailureMessage("UNKNOWN_AGENT",
                               << "Unknown agent: ", Task.payload.agent_id >>,
                               << "Available agents: ", ctx.agents >>))
                 ELSE StartExecuteDispatch

\* dispatchToAgent 137-186: parse, registry check, gate, and the start of
\* executeDispatch
DispatchToAgent ==
  /\ pc = "called"
  /\ UNCHANGED << messageJson, ctx, aborted, workerAlwaysEmpty, repliesReceived,
                  workerAlwaysInvalid, policyVars, validationVars,
                  gateVars, questionVars, concurrentVars, mergeVars, eventVars, retryVars >>
  /\ IF Task = Null
     THEN /\ Return(createFailureMessage("VALIDATION_ERROR",
                       << "Invalid task message format" >>,
                       << "Message must be a valid TaskMessage JSON envelope" >>))
          /\ UNCHANGED << classification, decision >>
     ELSE IF Task.payload.agent_id \notin ctx.agents
     THEN /\ Return(createFailureMessage("UNKNOWN_AGENT",
                       << "Unknown agent: ", Task.payload.agent_id >>,
                       << "Available agents: ", ctx.agents >>))
          /\ UNCHANGED << classification, decision >>
     ELSE LET cls == classifyAction(Task, ctx.agents)
              dec == determineGate(AutonomyConfigOf(ctx).level, cls)
              gateResult ==
                enforcePreDispatchGate([ task |-> Task,
                                         autonomyLevel |-> AutonomyConfigOf(ctx).level,
                                         classification |-> cls,
                                         decision |-> dec ])
          IN  /\ classification' = cls
              /\ decision' = dec
              /\ IF ~ gateResult.allowed
                 THEN Return(gateResult.response)
                 ELSE StartExecuteDispatch

\* executeDispatch 72-92: session.create resolves, with an id or without; with
\* an id the prompt is sent to the new session
SessionCreateResolves ==
  /\ pc = "create"
  /\ repliesReceived' = repliesReceived + 1
  /\ UNCHANGED << messageJson, ctx, aborted, workerAlwaysEmpty, classification, decision, policyVars, validationVars, gateVars, questionVars, concurrentVars, mergeVars, eventVars >>
  /\ \E created \in BOOLEAN :
       /\ workerAlwaysInvalid' = (workerAlwaysInvalid /\ created)
       /\ IF ~ created
          THEN ExecuteDispatchResolves(
                 createFailureMessage("SESSION_NOT_FOUND", << "Failed to create session" >>,
                                      << "Session creation returned no ID" >>))
          ELSE /\ sessionId' = "session-" \o ToString(sessionsCreated)
               /\ promptsSent' = promptsSent + 1
               /\ promptedSessions' = << sessionId' >>
               /\ pc' = "prompt"
               /\ UNCHANGED << sessionsCreated, correctionAttempts, dispatchResult, retryVars >>

\* mutant: the collected text is handed to validateWithRetry without the test
\* for an empty text
PromptResolves_ValidatesEmptyText ==
  /\ pc = "prompt"
  /\ repliesReceived' = repliesReceived + 1
  /\ UNCHANGED << messageJson, ctx, aborted, classification, decision, policyVars, validationVars, gateVars, questionVars, concurrentVars, mergeVars, eventVars >>
  /\ \E responseParts \in PromptResults :
       LET responseText == extractTextFromParts(responseParts)
           targetAgentId == Task.payload.agent_id
           first == ValidateFirst(responseText, targetAgentId, ctx.validationConfig, TRUE)
       IN  /\ workerAlwaysEmpty' = (workerAlwaysEmpty /\ responseText = EmptyText)
           /\ workerAlwaysInvalid' = (workerAlwaysInvalid /\ InvalidText(responseText))
           /\ IF first.done
              THEN ExecuteDispatchResolves(first.message)
              ELSE /\ correctionAttempts' = 1
                   /\ promptsSent' = promptsSent + 1
                   /\ promptedSessions' = Append(promptedSessions, sessionId)
                   /\ pc' = "correction"
                   /\ UNCHANGED << sessionId, sessionsCreated, dispatchResult, retryVars >>

\* executeDispatch 94-124 and validateWithRetry up to its first correction
\* prompt: the prompt resolves with its parts
PromptResolves ==
  /\ pc = "prompt"
  /\ repliesReceived' = repliesReceived + 1
  /\ UNCHANGED << messageJson, ctx, aborted, classification, decision, policyVars, validationVars, gateVars, questionVars, concurrentVars, mergeVars, eventVars >>
  /\ \E responseParts \in PromptResults :
       LET responseText == extractTextFromParts(responseParts)
           targetAgentId == Task.payload.agent_id
           first == ValidateFirst(responseText, targetAgentId, ctx.validationConfig, TRUE)
       IN  /\ workerAlwaysEmpty' = (workerAlwaysEmpty /\ responseText = EmptyText)
           /\ workerAlwaysInvalid' = (workerAlwaysInvalid /\ InvalidText(responseText))
           /\ IF responseText = EmptyText
              THEN ExecuteDispatchResolves(
                     createFailureMessage("AGENT_ERROR", << "Agent returned empty response" >>,
                                          << "Agent ", targetAgentId, " produced no text output" >>))
              ELSE IF first.done
              THEN ExecuteDispatchResolves(first.message)
              ELSE /\ correctionAttempts' = 1
                   /\ promptsSent' = promptsSent + 1
                   /\ promptedSessions' = Append(promptedSessions, sessionId)
                   /\ pc' = "correction"
                   /\ UNCHANGED << sessionId, sessionsCreated, dispatchResult, retryVars >>

\* mutant: the next correction re-prompt is sent together with one more, not
\* awaited
CorrectionResolves_SendsWithoutAwaiting ==
  /\ pc = "correction"
  /\ repliesReceived' = repliesReceived + 1
  /\ UNCHANGED << messageJson, ctx, aborted, classification, decision, policyVars, validationVars, gateVars, questionVars, concurrentVars, mergeVars, eventVars >>
  /\ \E retryParts \in PromptResults :
       LET again == ValidateCorrection(extractTextFromParts(retryParts),
                                       Task.payload.agent_id, ctx.validationConfig,
                                       correctionAttempts)
       IN  /\ workerAlwaysEmpty' =
                 (workerAlwaysEmpty /\ extractTextFromParts(retryParts) = EmptyText)
           /\ workerAlwaysInvalid' =
                 (workerAlwaysInvalid /\ InvalidText(extractTextFromParts(retryParts)))
           /\ IF again.done
              THEN ExecuteDispatchResolves(again.message)
              ELSE /\ correctionAttempts' = correctionAttempts + 1
                   /\ promptsSent' = promptsSent + 2
                   /\ promptedSessions' = Append(promptedSessions, sessionId)
                   /\ pc' = "correction"
                   /\ UNCHANGED << sessionId, sessionsCreated, dispatchResult, retryVars >>

\* executeDispatch 112-123 and the correction loop of validateWithRetry: a
\* correction re-prompt resolves with its parts
CorrectionResolves ==
  /\ pc = "correction"
  /\ repliesReceived' = repliesReceived + 1
  /\ UNCHANGED << messageJson, ctx, aborted, classification, decision, policyVars, validationVars, gateVars, questionVars, concurrentVars, mergeVars, eventVars >>
  /\ \E retryParts \in PromptResults :
       LET again == ValidateCorrection(extractTextFromParts(retryParts),
                                       Task.payload.agent_id, ctx.validationConfig,
                                       correctionAttempts)
       IN  /\ workerAlwaysEmpty' =
                 (workerAlwaysEmpty /\ extractTextFromParts(retryParts) = EmptyText)
           /\ workerAlwaysInvalid' =
                 (workerAlwaysInvalid /\ InvalidText(extractTextFromParts(retryParts)))
           /\ IF again.done
              THEN ExecuteDispatchResolves(again.message)
              ELSE /\ correctionAttempts' = correctionAttempts + 1
                   /\ promptsSent' = promptsSent + 1
                   /\ promptedSessions' = Append(promptedSessions, sessionId)
                   /\ pc' = "correction"
                   /\ UNCHANGED << sessionId, sessionsCreated, dispatchResult, retryVars >>

\* mutant: the exception is caught inside the execution and its AGENT_ERROR
\* failure is treated as the execution's result, so executeWithRetry sees it
WorkerClientThrows_FailureIsRetried ==
  /\ pc \in { "create", "prompt", "correction" }
  /\ repliesReceived' = repliesReceived + 1
  /\ workerAlwaysInvalid' = FALSE
  /\ UNCHANGED << messageJson, ctx, aborted, workerAlwaysEmpty, classification, decision, policyVars, validationVars, gateVars, questionVars, concurrentVars, mergeVars, eventVars >>
  /\ ExecuteDispatchResolves(
       createFailureMessage("AGENT_ERROR", << "Agent execution failed" >>, << "Agent crashed" >>))

\* session.create or session.prompt throws; nothing between the call and the
\* catch of dispatchToAgent handles it
WorkerClientThrows ==
  /\ pc \in { "create", "prompt", "correction" }
  /\ repliesReceived' = repliesReceived + 1
  /\ workerAlwaysInvalid' = FALSE
  /\ UNCHANGED << messageJson, ctx, aborted, workerAlwaysEmpty, classification, decision, policyVars, validationVars, gateVars, questionVars, concurrentVars, mergeVars, eventVars >>
  /\ Catch(<< "Agent crashed" >>)

\* the owner of ctx.abort sets the signal
Abort ==
  /\ pc # "done"
  /\ ~ aborted
  /\ aborted' = TRUE
  /\ UNCHANGED << messageJson, ctx, pc, classification, decision, sessionId,
                  correctionAttempts, dispatchResult, sessionsCreated, promptsSent,
                  promptedSessions, workerAlwaysEmpty, repliesReceived, workerAlwaysInvalid, policyVars, validationVars, gateVars, questionVars, concurrentVars, mergeVars, eventVars, retryVars >>

Next ==
  \/ DispatchToAgent
  \/ SessionCreateResolves
  \/ PromptResolves
  \/ CorrectionResolves
  \/ WorkerClientThrows
  \/ Abort

Spec == Init /\ [][Next]_vars

(***************************************************************************)
(* ValidationSpec: validateWithRetry(rawInput, agentId, config,            *)
(* retrySender?) on its own, against a correction sender that may reply    *)
(* with any text.                                                          *)
(***************************************************************************)
\* a result envelope as the tests write it
ValidResultEnvelope ==
  [ type |-> "result",
    session_id |-> "550e8400-e29b-41d4-a716-446655440000",
    timestamp |-> "2024-01-01T00:00:00.000Z",
    payload |-> [ agent_id |-> "coder", content |-> [ prose |-> "Done" ] ] ]

ValidAnswerEnvelope ==
  [ type |-> "answer",
    timestamp |-> "2024-01-01T00:00:00.000Z",
    payload |-> [ agent_id |-> "coder", content |-> [ prose |-> "42" ] ] ]

\* the texts a validation is run on: plain text, JSON that misses required
\* fields, JSON with a key the schema does not know, and valid envelopes
ValidationTexts ==
  { [ prose |-> "Just a simple response" ],
    JsonStringify([ type |-> "result" ]),
    JsonStringify([ type |-> "answer",
                    timestamp |-> "2024-01-01T00:00:00.000Z",
                    payload |-> [ agent_id |-> "coder", content |-> [ prose |-> "42" ] ],
                    extra |-> "field" ]),
    JsonStringify(ValidResultEnvelope),
    JsonStringify(ValidAnswerEnvelope) }

ValidationInit ==
  /\ rawInput \in ValidationTexts
  /\ validatedAgent \in { "coder", "researcher" }
  /\ validationConfig \in ValidationConfigs
  /\ hasRetrySender \in BOOLEAN
  /\ validationPc = "called"
  /\ validation = NoDecision
  /\ validationResult = NoEnvelope
  /\ senderCalls = 0
  /\ senderReplies = << >>
  /\ PolicyIdle
  /\ RetryIdle
  /\ DispatchIdle
  /\ GateIdle
  /\ QuestionIdle
  /\ ConcurrentIdle
  /\ MergeIdle
  /\ EventIdle

\* validateWithRetry from its call to its return or its first correction prompt
ValidateWithRetry ==
  /\ validationPc = "called"
  /\ validation' = validateMessage(rawInput)
  /\ LET first == ValidateFirst(rawInput, validatedAgent, validationConfig, hasRetrySender)
     IN  IF first.done
         THEN /\ validationResult' = first.message
              /\ validationPc' = "returned"
              /\ senderCalls' = senderCalls
         ELSE /\ senderCalls' = senderCalls + 1
              /\ validationPc' = "awaiting"
              /\ validationResult' = validationResult
  /\ UNCHANGED << rawInput, validatedAgent, validationConfig, hasRetrySender, senderReplies,
                  policyVars, retryVars, dispatchVars, gateVars, questionVars, concurrentVars, mergeVars, eventVars >>

\* the correction sender resolves with a new text: validateWithRetry validates
\* it and returns, or sends the next correction prompt
RetrySenderResolves ==
  /\ validationPc = "awaiting"
  /\ \E reply \in ValidationTexts :
       LET again == ValidateCorrection(reply, validatedAgent, validationConfig, senderCalls)
       IN  /\ senderReplies' = Append(senderReplies, reply)
           /\ validation' = validateMessage(reply)
           /\ IF again.done
              THEN /\ validationResult' = again.message
                   /\ validationPc' = "returned"
                   /\ senderCalls' = senderCalls
              ELSE /\ senderCalls' = senderCalls + 1
                   /\ validationPc' = "awaiting"
                   /\ validationResult' = validationResult
  /\ UNCHANGED << rawInput, validatedAgent, validationConfig, hasRetrySender,
                  policyVars, retryVars, dispatchVars, gateVars, questionVars, concurrentVars, mergeVars, eventVars >>

ValidationNext == ValidateWithRetry \/ RetrySenderResolves

ValidationSpec == ValidationInit /\ [][ValidationNext]_vars

(***************************************************************************)
(* GateSpec: a caller that classifies tasks (classifyAction) and hands     *)
(* each to the gate enforcer (enforcePreDispatchGate) under a level and a  *)
(* decision of its choice.  The n-th call reads the clock and the random   *)
(* source for the n-th time.                                               *)
(***************************************************************************)
\* the agents a classified task names: a routine one, a significant one and one
\* in no table
GateAgentIds == { "researcher", "coder", "ghost" }

GateSessionIds == { TaskSessionId, "6ba7b810-9dad-11d1-80b4-00c04fd430c8" }

\* the tasks handed to classifyAction and the gate
GateTasks ==
  { [ TaskMessage(a, p, FALSE) EXCEPT !.session_id = s ] :
      a \in GateAgentIds, p \in SUBSET PromptWords, s \in GateSessionIds }

\* gates.ts nowTimestamp() and randomUUID(): the n-th reading
nowTimestamp(n) == "now-" \o ToString(n)

randomUUID(n) == "random-uuid-" \o ToString(n)

\* the result of the n-th enforcePreDispatchGate call: the clock and the random
\* source have advanced
AtCall(result, n) ==
  IF result.allowed THEN result
  ELSE [ result EXCEPT
           !.response.timestamp = nowTimestamp(n),
           !.response.session_id =
             IF result.response.type = "failure" THEN randomUUID(n) ELSE @ ]

GateInit ==
  /\ enforcedLevel \in Levels
  /\ enforcedDecision \in GateDecisions \cup { UnrecognizedDecision }
  /\ classifiedTask = Null
  /\ taskClassification = "none"
  /\ gateLog = << >>
  /\ PolicyIdle
  /\ RetryIdle
  /\ DispatchIdle
  /\ ValidationIdle
  /\ QuestionIdle
  /\ ConcurrentIdle
  /\ MergeIdle
  /\ EventIdle

\* autonomy.ts classifyAction(task, agents) on a task of the caller's choice
ClassifyAction ==
  /\ classifiedTask = Null
  /\ Len(gateLog) < MaxGateCalls
  /\ \E task \in GateTasks :
       /\ classifiedTask' = task
       /\ taskClassification' = classifyAction(task, RegisteredAgents)
  /\ UNCHANGED << enforcedLevel, enforcedDecision, gateLog, policyVars, retryVars,
                  dispatchVars, questionVars, concurrentVars, mergeVars, eventVars, validationVars >>

\* gates.ts enforcePreDispatchGate(ctx) on the classified task
EnforcePreDispatchGate ==
  /\ classifiedTask # Null
  /\ LET gateCtx == [ task |-> classifiedTask,
                      autonomyLevel |-> enforcedLevel,
                      classification |-> taskClassification,
                      decision |-> enforcedDecision ]
     IN  gateLog' = Append(gateLog,
                      [ ctx |-> gateCtx,
                        result |-> AtCall(enforcePreDispatchGate(gateCtx), Len(gateLog) + 1) ])
  /\ classifiedTask' = Null
  /\ taskClassification' = "none"
  /\ UNCHANGED << enforcedLevel, enforcedDecision, policyVars, retryVars, dispatchVars, questionVars, concurrentVars, mergeVars, eventVars,
                  validationVars >>

GateNext == ClassifyAction \/ EnforcePreDispatchGate

GateSpec == GateInit /\ [][GateNext]_vars

(***************************************************************************)
(* QuestionSpec: the pending-question registry.  askQuestion calls are     *)
(* suspended at client.question.ask; question.replied and                  *)
(* question.rejected events arrive at any time for any request id.  A      *)
(* promise is named by the number of the askQuestion call that made it.    *)
(***************************************************************************)
\* the request ids the client hands out, and the answers of a reply event
\* the id the server gives the question of the call-th askQuestion call
QuestionIdOf(call) == "question-" \o ToString(call)

QuestionIds == { QuestionIdOf(call) : call \in 1 .. MaxQuestions }

QuestionAnswers == { << "Yes" >>, << "No" >> }

NoResult == [ type |-> "none" ]

QuestionInit ==
  /\ pending = << >>
  /\ promises = << >>
  /\ questions = << >>
  /\ PolicyIdle
  /\ RetryIdle
  /\ DispatchIdle
  /\ ValidationIdle
  /\ GateIdle
  /\ ConcurrentIdle
  /\ MergeIdle
  /\ EventIdle

\* pending.delete(requestID)
MapDelete(map, key) == [ k \in DOMAIN map \ { key } |-> map[k] ]

\* pending.set(questionId, entry)
MapSet(map, key, value) ==
  [ k \in DOMAIN map \cup { key } |-> IF k = key THEN value ELSE map[k] ]

\* askQuestion up to its await of client.question.ask
AskQuestion ==
  /\ Len(promises) < MaxQuestions
  /\ promises' = Append(promises, [ status |-> "asking", result |-> NoResult ])
  /\ questions' = Append(questions, [ questionId |-> "none", answered |-> FALSE ])
  /\ UNCHANGED << pending, policyVars, retryVars, dispatchVars, concurrentVars, mergeVars, eventVars, validationVars, gateVars >>

\* the server handles client.question.ask: it creates the question under a new id
QuestionCreated ==
  /\ \E call \in 1 .. Len(promises) :
       /\ promises[call].status = "asking"
       /\ questions[call].questionId = "none"
       /\ questions' = [ questions EXCEPT ![call].questionId = QuestionIdOf(call) ]
  /\ UNCHANGED << pending, promises, policyVars, retryVars, dispatchVars, concurrentVars, validationVars, gateVars, mergeVars, eventVars >>

\* the await of client.question.ask resolves and askQuestion goes on: without an
\* id it throws; with one it returns a promise whose executor registers it under
\* the id
QuestionAskResolves ==
  /\ \E call \in 1 .. Len(promises) :
       /\ promises[call].status = "asking"
       /\ LET questionId == questions[call].questionId
          IN  IF questionId = "none"
              THEN /\ promises' = [ promises EXCEPT ![call].status = "thrown" ]
                   /\ UNCHANGED pending
              ELSE /\ pending' = MapSet(pending, questionId, call)
                   /\ promises' = [ promises EXCEPT ![call].status = "waiting" ]
  /\ UNCHANGED << questions, policyVars, retryVars, dispatchVars, concurrentVars, validationVars, gateVars, mergeVars, eventVars >>

\* the record of an event for requestID having been handled: it is noted on the
\* question created under that id
EventHandled(requestID) ==
  [ call \in DOMAIN questions |->
      IF questions[call].questionId = requestID
      THEN [ questions[call] EXCEPT !.answered = TRUE ]
      ELSE questions[call] ]

\* mutant: the entry is resolved and left in the map
handleQuestionReplied_KeepsEntry(requestID, answers) ==
  /\ IF requestID \in DOMAIN pending
     THEN /\ pending' = pending
          /\ promises' = [ promises EXCEPT ![pending[requestID]] =
                             [ status |-> "resolved",
                               result |-> [ type |-> "answered", answers |-> answers ] ] ]
     ELSE UNCHANGED << pending, promises >>
  /\ questions' = EventHandled(requestID)
  /\ UNCHANGED << policyVars, retryVars, dispatchVars, concurrentVars, mergeVars, eventVars, validationVars, gateVars >>

\* handleQuestionReplied(requestID, answers)
handleQuestionReplied(requestID, answers) ==
  /\ IF requestID \in DOMAIN pending
     THEN /\ pending' = MapDelete(pending, requestID)
          /\ promises' = [ promises EXCEPT ![pending[requestID]] =
                             [ status |-> "resolved",
                               result |-> [ type |-> "answered", answers |-> answers ] ] ]
     ELSE UNCHANGED << pending, promises >>
  /\ questions' = EventHandled(requestID)
  /\ UNCHANGED << policyVars, retryVars, dispatchVars, concurrentVars, mergeVars, eventVars, validationVars, gateVars >>

\* mutant: a rejected question stays in the map
handleQuestionRejected_KeepsEntry(requestID) ==
  /\ IF requestID \in DOMAIN pending
     THEN /\ pending' = pending
          /\ promises' = [ promises EXCEPT ![pending[requestID]] =
                             [ status |-> "resolved", result |-> [ type |-> "rejected" ] ] ]
     ELSE UNCHANGED << pending, promises >>
  /\ questions' = EventHandled(requestID)
  /\ UNCHANGED << policyVars, retryVars, dispatchVars, concurrentVars, validationVars, gateVars, mergeVars, eventVars >>

\* handleQuestionRejected(requestID)
handleQuestionRejected(requestID) ==
  /\ IF requestID \in DOMAIN pending
     THEN /\ pending' = MapDelete(pending, requestID)
          /\ promises' = [ promises EXCEPT ![pending[requestID]] =
                             [ status |-> "resolved", result |-> [ type |-> "rejected" ] ] ]
     ELSE UNCHANGED << pending, promises >>
  /\ questions' = EventHandled(requestID)
  /\ UNCHANGED << policyVars, retryVars, dispatchVars, concurrentVars, mergeVars, eventVars, validationVars, gateVars >>

\* a question.replied event
QuestionReplied ==
  \E requestID \in QuestionIds, answers \in QuestionAnswers :
    handleQuestionReplied(requestID, answers)

\* a question.rejected event
QuestionRejected == \E requestID \in QuestionIds : handleQuestionRejected(requestID)

QuestionNext ==
  AskQuestion \/ QuestionCreated \/ QuestionAskResolves \/ QuestionReplied \/ QuestionRejected

QuestionSpec == QuestionInit /\ [][QuestionNext]_vars

\* the continuation of askQuestion runs once client.question.ask has resolved:
\* the event loop leaves no ready continuation waiting for ever.  Events are the
\* user's doing and come or not.
QuestionLiveSpec == QuestionSpec /\ WF_vars(QuestionAskResolves)

(***************************************************************************)
(* ConcurrentSpec: several dispatchToAgent calls in flight together, each  *)
(* suspended at its own session.create, prompt or correction re-prompt,    *)
(* interleaved in every order.  dispatches[d] holds the locals of call d   *)
(* (the locals of dispatchToAgent, executeDispatch and executeWithRetry    *)
(* are per call), workerReplies[d] what the worker client answered to the  *)
(* calls d made.                                                           *)
(***************************************************************************)
Dispatchers == { 1, 2 }

\* the tasks of the calls: a routine task with and without a parent session
ConcurrentTasks == { TaskMessage("researcher", { }, w) : w \in BOOLEAN }

\* the levels under which a routine task is let through the gate
ConcurrentAutonomyConfigs ==
  [ level : { "assisted", "autonomous" }, maxRetries : 0 .. MaxConcurrentRetries ]

ConcurrentValidationConfig == [ maxRetries |-> 1, wrapPlainText |-> FALSE ]

\* what session.create resolves to, and the parts session.prompt resolves to
SessionCreateResults == { [ id |-> "session-1" ], [ noId |-> TRUE ] }

ConcurrentPromptResults ==
  { << >>,
    << [ type |-> "text", text |-> [ prose |-> "Here is my plain text response" ] ] >>,
    << [ type |-> "text", text |-> JsonStringify(ValidAnswerEnvelope) ] >> }

Thrown == [ thrown |-> TRUE ]

ConcurrentInit ==
  /\ dispatches \in
       [ Dispatchers ->
           [ task : ConcurrentTasks, autonomyConfig : ConcurrentAutonomyConfigs,
             pc : { "called" }, sessionId : { "none" }, correctionAttempts : { 0 },
             attempts : { 0 }, currentFailure : { NoEnvelope }, result : { Null } ] ]
  /\ workerReplies = [ d \in Dispatchers |-> << >> ]
  /\ PolicyIdle
  /\ RetryIdle
  /\ DispatchIdle
  /\ ValidationIdle
  /\ GateIdle
  /\ QuestionIdle
  /\ MergeIdle
  /\ EventIdle

\* mutant: the attempt counter is one module-level variable that the calls in
\* flight all count in
AttemptsOf_ModuleLevel(d) ==
  dispatches[1].attempts + dispatches[2].attempts

\* retry.ts 151: `let attempts = 0`, a local of the executeWithRetry call
AttemptsOf(d) == dispatches[d].attempts

\* executeDispatch 63-92 for call d: up to its first await
LocalStart(local) ==
  IF "parent_session_id" \in DOMAIN local.task.payload
  THEN [ local EXCEPT !.pc = "prompt", !.correctionAttempts = 0,
                      !.sessionId = local.task.payload.parent_session_id ]
  ELSE [ local EXCEPT !.pc = "create", !.correctionAttempts = 0, !.sessionId = "none" ]

\* dispatchToAgent 199-203 for call d: the serialized final envelope
LocalReturn(local, envelope) ==
  [ local EXCEPT !.pc = "done",
                 !.result = JsonStringify(transformResponse(envelope,
                              local.autonomyConfig.level, "routine")) ]

\* dispatchToAgent 186-197 and executeWithRetry 150-180 for call d:
\* executeDispatch has resolved to an envelope
LocalResolved(d, envelope) ==
  LET local == dispatches[d]
  IN  IF envelope.type # "failure"
      THEN LocalReturn(local, envelope)
      ELSE IF RetryLoopHead(envelope, local.autonomyConfig.level, AttemptsOf(d),
                            local.autonomyConfig.maxRetries) = "invoke"
      THEN LocalStart([ local EXCEPT !.currentFailure = envelope,
                                     !.attempts = AttemptsOf(d) + 1 ])
      ELSE LocalReturn([ local EXCEPT !.currentFailure = envelope ], envelope)

\* call d moves to its next await or returns; the reply is recorded
Moves(d, next, reply) ==
  /\ dispatches' = [ dispatches EXCEPT ![d] = next ]
  /\ workerReplies' = [ workerReplies EXCEPT ![d] = Append(@, reply) ]
  /\ UNCHANGED << policyVars, retryVars, dispatchVars, mergeVars, eventVars, validationVars, gateVars,
                  questionVars >>

\* dispatchToAgent 137-186 for call d: registry, gate, start of executeDispatch
ConcurrentDispatchToAgent ==
  \E d \in Dispatchers :
    LET local == dispatches[d]
        cls == classifyAction(local.task, RegisteredAgents)
        gateResult ==
          enforcePreDispatchGate([ task |-> local.task,
                                   autonomyLevel |-> local.autonomyConfig.level,
                                   classification |-> cls,
                                   decision |-> determineGate(local.autonomyConfig.level, cls) ])
    IN  /\ local.pc = "called"
        /\ dispatches' =
             [ dispatches EXCEPT ![d] =
                 IF local.task.payload.agent_id \notin RegisteredAgents
                 THEN LocalReturn(local,
                        createFailureMessage("UNKNOWN_AGENT",
                          << "Unknown agent: ", local.task.payload.agent_id >>,
                          << "Available agents: ", RegisteredAgents >>))
                 ELSE IF ~ gateResult.allowed
                 THEN LocalReturn(local, gateResult.response)
                 ELSE LocalStart(local) ]
        /\ UNCHANGED << workerReplies, policyVars, retryVars, dispatchVars, mergeVars, eventVars, validationVars,
                        gateVars, questionVars >>

\* executeDispatch 72-92 for call d: its session.create resolves
ConcurrentSessionCreateResolves ==
  \E d \in Dispatchers, createResult \in SessionCreateResults :
    /\ dispatches[d].pc = "create"
    /\ Moves(d,
             IF "id" \in DOMAIN createResult
             THEN [ dispatches[d] EXCEPT !.pc = "prompt", !.sessionId = createResult.id ]
             ELSE LocalResolved(d,
                    createFailureMessage("SESSION_NOT_FOUND", << "Failed to create session" >>,
                                         << "Session creation returned no ID" >>)),
             createResult)

\* executeDispatch 94-124 for call d: its prompt resolves
ConcurrentPromptResolves ==
  \E d \in Dispatchers, responseParts \in ConcurrentPromptResults :
    LET local == dispatches[d]
        responseText == extractTextFromParts(responseParts)
        targetAgentId == local.task.payload.agent_id
        first == ValidateFirst(responseText, targetAgentId, ConcurrentValidationConfig, TRUE)
    IN  /\ local.pc = "prompt"
        /\ Moves(d,
                 IF responseText = EmptyText
                 THEN LocalResolved(d,
                        createFailureMessage("AGENT_ERROR", << "Agent returned empty response" >>,
                          << "Agent ", targetAgentId, " produced no text output" >>))
                 ELSE IF first.done THEN LocalResolved(d, first.message)
                 ELSE [ local EXCEPT !.pc = "correction", !.correctionAttempts = 1 ],
                 [ parts |-> responseParts ])

\* executeDispatch 112-123 for call d: its correction re-prompt resolves
ConcurrentCorrectionResolves ==
  \E d \in Dispatchers, retryParts \in ConcurrentPromptResults :
    LET local == dispatches[d]
        again == ValidateCorrection(extractTextFromParts(retryParts),
                                    local.task.payload.agent_id, ConcurrentValidationConfig,
                                    local.correctionAttempts)
    IN  /\ local.pc = "correction"
        /\ Moves(d,
                 IF again.done THEN LocalResolved(d, again.message)
                 ELSE [ local EXCEPT !.correctionAttempts = @ + 1 ],
                 [ parts |-> retryParts ])

\* dispatchToAgent 204-220 for call d: a worker-client call of d throws
ConcurrentWorkerClientThrows ==
  \E d \in Dispatchers :
    /\ dispatches[d].pc \in { "create", "prompt", "correction" }
    /\ Moves(d,
             LocalReturn(dispatches[d],
               createFailureMessage("AGENT_ERROR", << "Agent execution failed" >>,
                                    << "Agent crashed" >>)),
             Thrown)

ConcurrentNext ==
  \/ ConcurrentDispatchToAgent
  \/ ConcurrentSessionCreateResolves
  \/ ConcurrentPromptResolves
  \/ ConcurrentCorrectionResolves
  \/ ConcurrentWorkerClientThrows

ConcurrentSpec == ConcurrentInit /\ [][ConcurrentNext]_vars

(***************************************************************************)
(* mergeAgentConfigs (MergeSpec): the merge of the default agents with     *)
(* the user's agents, on drawn arguments.  A config is a function from the *)
(* keys it carries to their values; "undefined" is a key present with the  *)
(* value undefined.                                                        *)
(***************************************************************************)
Undefined == "undefined"

PROTECTED_AGENTS == { "orca", "strategist" }

\* keys whose values are nested objects (tools, permission)
ObjectKeys == { "tools" }

DefaultAgentIds == { "orca", "coder" }

UserAgentIds == { "orca", "coder", "my-specialist" }

\* default definitions as DEFAULT_AGENTS and the tests have them: none is disabled
DefaultConfigs ==
  { [ mode |-> "subagent", responseTypes |-> "default-types", tools |-> [ bash |-> "false" ] ],
    [ mode |-> "subagent", disable |-> "false" ] }

UserConfigs ==
  { [ disable |-> "true" ],
    [ disable |-> "false" ],
    [ model |-> "gpt-4o" ],
    [ model |-> "gpt-4o", disable |-> Undefined ],
    [ responseTypes |-> "user-types", tools |-> [ bash |-> "true", webfetch |-> "true" ] ] }

\* every map from a subset of ids to configs
ConfigMaps(ids, configs) == UNION { [ d -> configs ] : d \in SUBSET ids }

\* userAgents?: Record<string, AgentConfig>
UserAgentsArguments ==
  { [ given |-> FALSE, agents |-> << >> ] } \cup
  { [ given |-> TRUE, agents |-> m ] : m \in ConfigMaps(UserAgentIds, UserConfigs) }

\* if (config.disable): the key is there and its value is true
Disabled(config) == "disable" \in DOMAIN config /\ config["disable"] = "true"

\* mergeAgentConfig(base, override): override's defined values replace base's,
\* nested objects are merged key by key
mergeAgentConfig(base, override) ==
  LET overrides(k) ==
        /\ k \in DOMAIN override
        /\ (k \in ObjectKeys \/ override[k] # Undefined)
  IN  [ k \in DOMAIN base \cup { o \in DOMAIN override : overrides(o) } |->
          IF overrides(k)
          THEN IF k \in ObjectKeys /\ k \in DOMAIN base
               THEN [ t \in DOMAIN base[k] \cup DOMAIN override[k] |->
                        IF t \in DOMAIN override[k] THEN override[k][t] ELSE base[k][t] ]
               ELSE override[k]
          ELSE base[k] ]

\* the merged config of a default agent the user overrides, with the default
\* responseTypes put back for a protected agent
MergedDefault(agentId, defaultConfig, userOverride) ==
  LET merged == mergeAgentConfig(defaultConfig, userOverride)
  IN  IF agentId \in PROTECTED_AGENTS
      THEN IF "responseTypes" \in DOMAIN defaultConfig
           THEN [ k \in DOMAIN merged \cup { "responseTypes" } |->
                    IF k = "responseTypes" THEN defaultConfig[k] ELSE merged[k] ]
           ELSE [ k \in DOMAIN merged \cup { "responseTypes" } |->
                    IF k = "responseTypes" THEN Undefined ELSE merged[k] ]
      ELSE merged

\* mutant: a disabled agent the user adds is kept
mergeAgentConfigs_KeepsDisabledCustom(defaults, userAgents) ==
  LET user == userAgents.agents
      overridden(id) == userAgents.given /\ id \in DOMAIN user
      keptDefaults ==
        { id \in DOMAIN defaults :
            ~ (overridden(id) /\ Disabled(mergeAgentConfig(defaults[id], user[id]))) }
      added ==
        IF userAgents.given
        THEN { id \in DOMAIN user : id \notin DOMAIN defaults }
        ELSE { }
  IN  [ id \in keptDefaults \cup added |->
          IF id \in DOMAIN defaults
          THEN IF overridden(id)
               THEN MergedDefault(id, defaults[id], user[id])
               ELSE defaults[id]
          ELSE user[id] ]

\* mergeAgentConfigs(defaults, userAgents)
mergeAgentConfigs(defaults, userAgents) ==
  LET user == userAgents.agents
      overridden(id) == userAgents.given /\ id \in DOMAIN user
      keptDefaults ==
        { id \in DOMAIN defaults :
            ~ (overridden(id) /\ Disabled(mergeAgentConfig(defaults[id], user[id]))) }
      added ==
        IF userAgents.given
        THEN { id \in DOMAIN user : id \notin DOMAIN defaults /\ ~ Disabled(user[id]) }
        ELSE { }
  IN  [ id \in keptDefaults \cup added |->
          IF id \in DOMAIN defaults
          THEN IF overridden(id)
               THEN MergedDefault(id, defaults[id], user[id])
               ELSE defaults[id]
          ELSE user[id] ]

MergeInit ==
  /\ mergeDefaults \in ConfigMaps(DefaultAgentIds, DefaultConfigs)
  /\ mergeUserAgents \in UserAgentsArguments
  /\ mergeResult = [ returned |-> FALSE, agents |-> << >> ]
  /\ PolicyIdle
  /\ RetryIdle
  /\ DispatchIdle
  /\ ValidationIdle
  /\ GateIdle
  /\ QuestionIdle
  /\ ConcurrentIdle
  /\ EventIdle

\* one call of mergeAgentConfigs
MergeAgentConfigs ==
  /\ ~ mergeResult.returned
  /\ mergeResult' =
       [ returned |-> TRUE, agents |-> mergeAgentConfigs(mergeDefaults, mergeUserAgents) ]
  /\ UNCHANGED << mergeDefaults, mergeUserAgents, policyVars, retryVars, dispatchVars,
                  validationVars, gateVars, questionVars, concurrentVars, eventVars >>

MergeNext == MergeAgentConfigs

MergeSpec == MergeInit /\ [][MergeNext]_vars

(***************************************************************************)
(* createOrcaPlugin's event hook (EventSpec): one plugin instance, the      *)
(* events delivered to its hook, and the callbacks it hands to setTimeout. *)
(***************************************************************************)
\* event.properties: absent, without info, with info of a top-level session,
\* with info of a sub-session
EventProperties ==
  { [ kind |-> "none" ],
    [ kind |-> "other" ],
    [ kind |-> "info", info |-> [ id |-> "ses_1" ] ],
    [ kind |-> "info", info |-> [ id |-> "ses_2", parentID |-> "ses_1" ] ] }

\* props?.info?.parentID
ParentIDOf(props) ==
  IF props.kind = "info" /\ "parentID" \in DOMAIN props.info
  THEN props.info.parentID
  ELSE Undefined

\* loadUserConfig resolved, or threw with a message
ConfigLoadErrors == { Undefined, "Invalid orca.json" }

EventInit ==
  /\ configLoadError \in ConfigLoadErrors
  /\ hasRunUpdateNotifier = FALSE
  /\ deliveredEvents = << >>
  /\ scheduled = << >>
  /\ ran = 0
  /\ PolicyIdle
  /\ RetryIdle
  /\ DispatchIdle
  /\ ValidationIdle
  /\ GateIdle
  /\ QuestionIdle
  /\ ConcurrentIdle
  /\ MergeIdle

\* mutant: the once-only flag is set before the sub-session test
EventHook_FlagBeforeSubSessionTest(props) ==
  /\ deliveredEvents' = Append(deliveredEvents, props)
  /\ IF hasRunUpdateNotifier
     THEN UNCHANGED << hasRunUpdateNotifier, scheduled >>
     ELSE IF ParentIDOf(props) # Undefined
     THEN /\ hasRunUpdateNotifier' = TRUE
          /\ UNCHANGED scheduled
     ELSE /\ hasRunUpdateNotifier' = TRUE
          /\ scheduled' =
               IF configLoadError # Undefined
               THEN scheduled \o << "showToast", "runUpdateNotifier" >>
               ELSE Append(scheduled, "runUpdateNotifier")

\* event({ event })
EventHook(props) ==
  /\ deliveredEvents' = Append(deliveredEvents, props)
  /\ IF hasRunUpdateNotifier
     THEN UNCHANGED << hasRunUpdateNotifier, scheduled >>
     ELSE IF ParentIDOf(props) # Undefined
     THEN UNCHANGED << hasRunUpdateNotifier, scheduled >>
     ELSE /\ hasRunUpdateNotifier' = TRUE
          /\ scheduled' =
               IF configLoadError # Undefined
               THEN scheduled \o << "showToast", "runUpdateNotifier" >>
               ELSE Append(scheduled, "runUpdateNotifier")

\* an event is delivered to the hook
Event ==
  /\ Len(deliveredEvents) < MaxEvents
  /\ \E props \in EventProperties : EventHook(props)
  /\ UNCHANGED << configLoadError, ran, policyVars, retryVars, dispatchVars, validationVars,
                  gateVars, questionVars, concurrentVars, mergeVars >>

\* the next callback handed to setTimeout runs
TimerFires ==
  /\ ran < Len(scheduled)
  /\ ran' = ran + 1
  /\ UNCHANGED << configLoadError, hasRunUpdateNotifier, deliveredEvents, scheduled,
                  policyVars, retryVars, dispatchVars, validationVars, gateVars,
                  questionVars, concurrentVars, mergeVars >>

EventNext == Event \/ TimerFires

EventSpec == EventInit /\ [][EventNext]_vars

(***************************************************************************)
(* Properties of the gate policy (PolicySpec).                             *)
(***************************************************************************)
\* severity order of the gate decisions: proceed < require_approval < block
DecisionRank(d) ==
  CASE d = "proceed" -> 0 [] d = "require_approval" -> 1 [] d = "block" -> 2

\* order of the autonomy levels: supervised < assisted < autonomous
LevelRank(l) ==
  CASE l = "supervised" -> 0 [] l = "assisted" -> 1 [] l = "autonomous" -> 2

\* C3: the decision determineGate computed equals the decision table: the nine
\* (level, classification) entries, and require_approval for an unrecognized
\* level whatever the classification.
C3_GateDecisionTable ==
  gateDecision # "pending" =>
    LET l == gateLevel
        c == gateClassification
        d == gateDecision
    IN  /\ (l = "supervised" /\ c = "routine") => d = "require_approval"
        /\ (l = "supervised" /\ c = "significant") => d = "require_approval"
        /\ (l = "supervised" /\ c = "dangerous") => d = "block"
        /\ (l = "assisted" /\ c = "routine") => d = "proceed"
        /\ (l = "assisted" /\ c = "significant") => d = "require_approval"
        /\ (l = "assisted" /\ c = "dangerous") => d = "block"
        /\ (l = "autonomous" /\ c = "routine") => d = "proceed"
        /\ (l = "autonomous" /\ c = "significant") => d = "proceed"
        /\ (l = "autonomous" /\ c = "dangerous") => d = "require_approval"
        /\ l \notin AutonomyLevels => d = "require_approval"

\* C3 witness: determineGate has been applied to an unrecognized level
C3_Witness ==
  /\ gateLevel = UnrecognizedLevel
  /\ gateClassification = "dangerous"
  /\ gateDecision = "require_approval"

\* C4: gate decisions escalate monotonically: for the classification at hand,
\* the decision at any higher autonomy level is never more restrictive than the
\* decision computed at the level at hand.
C4_MonotonicEscalation ==
  (gateDecision # "pending" /\ gateLevel \in AutonomyLevels) =>
    \A higher \in AutonomyLevels :
      LevelRank(higher) > LevelRank(gateLevel) =>
        DecisionRank(determineGate(higher, gateClassification)) <= DecisionRank(gateDecision)

\* C4 witness: a decision at the lowest level that the higher levels relax
C4_Witness ==
  /\ gateLevel = "supervised"
  /\ gateClassification = "significant"
  /\ gateDecision = "require_approval"
  /\ determineGate("autonomous", gateClassification) = "proceed"

(***************************************************************************)
(* Properties of shouldAutoRetry (PolicySpec).                             *)
(***************************************************************************)
NotRetryableReason(code) == << "Error code ", code, " is not retryable" >>

MaxExceededReason(max) == << "Maximum retry attempts (", ToString(max), ") exceeded" >>

\* C9 as stated: on a non-retryable code shouldAutoRetry answers shouldRetry =
\* false with the reason that the code is not retryable, for every level and
\* every (attempts, maxRetries), attempts >= maxRetries included.
C9_NotRetryableReasonAlways ==
  (retryDecision # NoDecision
     /\ retryCtx.failure.payload.code \in NON_RETRYABLE_ERROR_CODES) =>
    /\ retryDecision.shouldRetry = FALSE
    /\ retryDecision.reason = NotRetryableReason(retryCtx.failure.payload.code)

\* C9 amended: on a non-retryable code shouldAutoRetry answers shouldRetry =
\* false for every level and every (attempts, maxRetries); the reason states
\* that the code is not retryable when attempts < maxRetries, and that the
\* maximum retry attempts are exceeded when attempts >= maxRetries.
C9_NotRetryableReasonWithinBudget ==
  (retryDecision # NoDecision
     /\ retryCtx.failure.payload.code \in NON_RETRYABLE_ERROR_CODES) =>
    /\ retryDecision.shouldRetry = FALSE
    /\ retryCtx.attempts < retryCtx.maxRetries =>
         retryDecision.reason = NotRetryableReason(retryCtx.failure.payload.code)
    /\ retryCtx.attempts >= retryCtx.maxRetries =>
         retryDecision.reason = MaxExceededReason(retryCtx.maxRetries)

\* C9 witness: a non-retryable code decided with the budget already used up
C9_Witness ==
  /\ retryDecision # NoDecision
  /\ retryCtx.failure.payload.code = "UNKNOWN_AGENT"
  /\ retryCtx.autonomyLevel = "assisted"
  /\ retryCtx.attempts >= retryCtx.maxRetries
  /\ retryCtx.maxRetries > 0

(***************************************************************************)
(* Properties of executeWithRetry (RetrySpec).                             *)
(***************************************************************************)
IsFailure(env) == env.type = "failure"

IsRetryableFailure(env) ==
  IsFailure(env) /\ env.payload.code \in { "AGENT_ERROR", "TIMEOUT", "VALIDATION_ERROR" }

IsNonRetryableFailure(env) ==
  IsFailure(env) /\ env.payload.code \in
    { "UNKNOWN_AGENT", "SESSION_NOT_FOUND", "AUTONOMY_BLOCKED", "APPROVAL_REQUIRED" }

\* every result the executor has returned so far is a failure with a retryable code
ExecutorAlwaysFailedRetryably ==
  \A i \in 1 .. Len(executorLog) : IsRetryableFailure(executorLog[i])

\* C5: the executor is invoked at most maxRetries times (never when maxRetries
\* is 0); under assisted or autonomous, when the initial failure and every
\* executor result are failures with retryable codes, executeWithRetry returns
\* after exactly maxRetries invocations.
C5_AttemptBudget ==
  /\ executorCalls <= maxRetries
  /\ (retryPc = "returned"
        /\ autonomyLevel \in { "assisted", "autonomous" }
        /\ IsRetryableFailure(failure)
        /\ ExecutorAlwaysFailedRetryably) =>
       (executorCalls = maxRetries /\ Len(executorLog) = maxRetries)

\* C5 witness: a run that used the whole budget of three on retryable failures
C5_Witness ==
  /\ retryPc = "returned"
  /\ autonomyLevel = "assisted"
  /\ maxRetries = 3
  /\ IsRetryableFailure(failure)
  /\ ExecutorAlwaysFailedRetryably
  /\ executorCalls = 3

\* C6: with a non-retryable initial failure the executor is never invoked and
\* the initial failure is returned unchanged, whatever the level and
\* maxRetries; and a non-retryable failure returned by the executor is the last
\* result: no further invocation follows and that failure is returned.
C6_NonRetryableStops ==
  /\ (IsNonRetryableFailure(failure) /\ retryPc # "called") =>
       (executorCalls = 0 /\ retryPc = "returned" /\ retryResult = failure)
  /\ \A i \in 1 .. Len(executorLog) :
       IsNonRetryableFailure(executorLog[i]) =>
         /\ i = Len(executorLog)
         /\ executorCalls = i
         /\ retryPc = "returned"
         /\ retryResult = executorLog[i]

\* C6 witness: the executor returned a non-retryable failure while budget remained
C6_Witness ==
  /\ Len(executorLog) = 1
  /\ IsNonRetryableFailure(executorLog[1])
  /\ autonomyLevel = "autonomous"
  /\ attempts < maxRetries
  /\ retryPc = "returned"

\* the executor failed twice with retryable codes and then succeeded
FailedTwiceThenSucceeded ==
  /\ Len(executorLog) = 3
  /\ IsRetryableFailure(executorLog[1])
  /\ IsRetryableFailure(executorLog[2])
  /\ ~ IsFailure(executorLog[3])

C7_Scenario ==
  /\ IsRetryableFailure(failure)
  /\ autonomyLevel = "assisted"
  /\ maxRetries = 3

\* C7 as stated: retryable failure, assisted, maxRetries = 3, an executor that
\* fails twice then succeeds: the success is returned after exactly 2 executor
\* invocations.
C7_SuccessAfterTwoInvocations ==
  (C7_Scenario /\ FailedTwiceThenSucceeded) =>
    (retryPc = "returned" /\ retryResult = executorLog[3] /\ executorCalls = 2)

\* C7 amended: retryable failure, assisted, maxRetries = 3, an executor that
\* fails twice with retryable codes then succeeds: after the second failure the
\* executor is invoked a third time, and the success is returned after exactly
\* 3 executor invocations.
C7_SuccessAfterThreeInvocations ==
  /\ (C7_Scenario /\ Len(executorLog) = 2 /\ ExecutorAlwaysFailedRetryably) =>
       (retryPc \in { "executing", "thrown" } /\ executorCalls = 3)
  /\ (C7_Scenario /\ FailedTwiceThenSucceeded) =>
       (retryPc = "returned" /\ retryResult = executorLog[3] /\ executorCalls = 3)

\* C7 witness: the scenario has run to its return
C7_Witness ==
  /\ C7_Scenario
  /\ FailedTwiceThenSucceeded
  /\ retryPc = "returned"

\* C8: under supervised the executor is never invoked and executeWithRetry
\* returns the initial failure, whatever the error code and maxRetries.
C8_SupervisedNeverRetries ==
  autonomyLevel = "supervised" =>
    /\ executorCalls = 0
    /\ retryPc \in { "called", "returned" }
    /\ retryPc = "returned" => retryResult = failure

\* C8 witness: supervised, a retryable code and budget left, already returned
C8_Witness ==
  /\ autonomyLevel = "supervised"
  /\ failure.payload.code = "AGENT_ERROR"
  /\ maxRetries = 2
  /\ retryPc = "returned"

\* the current failure, on which the last loop-head decision was taken, is a TIMEOUT
CurrentFailureIsTimeout ==
  IsFailure(currentFailure) /\ currentFailure.payload.code = "TIMEOUT"

\* C10 as stated: the executor is never invoked while the current failure's
\* code is TIMEOUT, at any autonomy level.
C10_TimeoutNeverRetried ==
  retryPc = "executing" => ~ CurrentFailureIsTimeout

\* C10 amended: TIMEOUT is retried like the other retryable codes: a TIMEOUT
\* current failure leads to an executor invocation exactly when the level is
\* assisted or autonomous and attempts < maxRetries; it is returned without an
\* invocation only under supervised or an unrecognized level, or with the
\* budget used up.
C10_TimeoutRetriedWithinBudget ==
  CurrentFailureIsTimeout =>
    /\ retryPc = "executing" =>
         (autonomyLevel \in { "assisted", "autonomous" } /\ attempts <= maxRetries)
    /\ (retryPc = "returned" /\ retryResult = currentFailure) =>
         (autonomyLevel \notin { "assisted", "autonomous" } \/ attempts = maxRetries)

\* C10 witness: the executor is running on account of a TIMEOUT failure
C10_Witness ==
  /\ retryPc = "executing"
  /\ CurrentFailureIsTimeout
  /\ autonomyLevel = "autonomous"

(***************************************************************************)
(* Properties of dispatchToAgent (Spec).                                   *)
(***************************************************************************)
WorkerClientCalls == sessionsCreated + promptsSent

ValidRegisteredTask == Task # Null /\ Task.payload.agent_id \in ctx.agents

\* the context dispatchToAgent hands to the gate enforcer
GateContextOf(dec) ==
  [ task |-> Task,
    autonomyLevel |-> AutonomyConfigOf(ctx).level,
    classification |-> classifyAction(Task, ctx.agents),
    decision |-> dec ]

\* C1: for a valid task naming a registered agent, once dispatchToAgent has
\* passed the gate, the worker client has been called (session create or
\* prompt send) if and only if determineGate(level, classifyAction(task)) is
\* proceed; under require_approval or block there are zero worker-client
\* calls and the call has returned exactly the gate's response: the approval
\* escalation, or the failure with code AUTONOMY_BLOCKED.
C1_GateGuardsDispatch ==
  (ValidRegisteredTask /\ pc # "called") =>
    LET dec == determineGate(AutonomyConfigOf(ctx).level, classifyAction(Task, ctx.agents))
    IN  /\ (WorkerClientCalls > 0) <=> (dec = "proceed")
        /\ (dec = "require_approval") =>
             /\ pc = "done"
             /\ WorkerClientCalls = 0
             /\ dispatchResult = JsonStringify(createApprovalEscalation(GateContextOf(dec)))
             /\ dispatchResult.json.type = "escalation"
        /\ (dec = "block") =>
             /\ pc = "done"
             /\ WorkerClientCalls = 0
             /\ dispatchResult = JsonStringify(createBlockedFailure(GateContextOf(dec)))
             /\ dispatchResult.json.type = "failure"
             /\ dispatchResult.json.payload.code = "AUTONOMY_BLOCKED"

\* a significant task under assisted has been answered with the escalation and
\* no worker-client call
C1_Witness ==
  /\ ValidRegisteredTask
  /\ pc = "done"
  /\ AutonomyConfigOf(ctx).level = "assisted"
  /\ classification = "significant"
  /\ decision = "require_approval"
  /\ WorkerClientCalls = 0
  /\ dispatchResult.json.type = "escalation"

\* C2: at every autonomy level, an unrecognized one included,
\* determineGate(level, dangerous) is never proceed, and dispatchToAgent makes
\* no worker-client call for a task classified dangerous.
C2_DangerousNeverProceeds ==
  /\ \A level \in Levels : determineGate(level, "dangerous") # "proceed"
  /\ (ValidRegisteredTask /\ classifyAction(Task, ctx.agents) = "dangerous") =>
       WorkerClientCalls = 0

\* a dangerous task under autonomous has been answered without a
\* worker-client call
C2_Witness ==
  /\ ValidRegisteredTask
  /\ pc = "done"
  /\ classification = "dangerous"
  /\ AutonomyConfigOf(ctx).level = "autonomous"
  /\ decision = "require_approval"
  /\ WorkerClientCalls = 0

(***************************************************************************)
(* Properties of the retryability tables (PolicySpec).                     *)
(***************************************************************************)
\* C11: the retryability classification partitions the error-code enum: every
\* ErrorCode is in exactly one of the retryable set {AGENT_ERROR, TIMEOUT,
\* VALIDATION_ERROR} and the non-retryable set {UNKNOWN_AGENT,
\* SESSION_NOT_FOUND, AUTONOMY_BLOCKED, APPROVAL_REQUIRED}, and shouldAutoRetry
\* answers shouldRetry = true only for a code of the retryable set.
C11_RetryabilityPartition ==
  /\ RETRYABLE_ERROR_CODES = { "AGENT_ERROR", "TIMEOUT", "VALIDATION_ERROR" }
  /\ NON_RETRYABLE_ERROR_CODES =
       { "UNKNOWN_AGENT", "SESSION_NOT_FOUND", "AUTONOMY_BLOCKED", "APPROVAL_REQUIRED" }
  /\ RETRYABLE_ERROR_CODES \cap NON_RETRYABLE_ERROR_CODES = { }
  /\ RETRYABLE_ERROR_CODES \cup NON_RETRYABLE_ERROR_CODES = ErrorCodes
  /\ (retryDecision # NoDecision /\ retryDecision.shouldRetry) =>
       retryCtx.failure.payload.code \in { "AGENT_ERROR", "TIMEOUT", "VALIDATION_ERROR" }

\* C11 witness: shouldAutoRetry has answered true for a VALIDATION_ERROR
C11_Witness ==
  /\ retryDecision # NoDecision
  /\ retryDecision.shouldRetry
  /\ retryCtx.failure.payload.code = "VALIDATION_ERROR"
  /\ retryCtx.autonomyLevel = "autonomous"

(***************************************************************************)
(* Properties of validateWithRetry and validateMessage (ValidationSpec).   *)
(***************************************************************************)
\* whether a text is a JSON envelope the schema accepts
IsValidText(text) == IsJson(text) /\ SchemaAccepts(text.json)

AllRepliesInvalid == \A i \in 1 .. Len(senderReplies) : ~ IsValidText(senderReplies[i])

IsValidationFailure(env) ==
  /\ env.type = "failure"
  /\ env.payload.code = "VALIDATION_ERROR"

\* C12: with an invalid initial input, wrapPlainText disabled, maxRetries =
\* n > 0 and a correction sender whose every reply fails validation, the
\* sender is invoked exactly n times (never n + 1), and after the n-th reply
\* validateWithRetry has returned a failure with code VALIDATION_ERROR.
C12_SenderCalledExactlyMaxRetries ==
  (/\ validationPc # "called"
   /\ hasRetrySender
   /\ ~ IsValidText(rawInput)
   /\ ~ validationConfig.wrapPlainText
   /\ validationConfig.maxRetries > 0
   /\ AllRepliesInvalid) =>
    /\ senderCalls <= validationConfig.maxRetries
    /\ validationPc = "awaiting" => senderCalls = Len(senderReplies) + 1
    /\ Len(senderReplies) = validationConfig.maxRetries => validationPc = "returned"
    /\ validationPc = "returned" =>
         /\ senderCalls = validationConfig.maxRetries
         /\ Len(senderReplies) = validationConfig.maxRetries
         /\ IsValidationFailure(validationResult)

\* C12 witness: two invalid replies have used up maxRetries = 2
C12_Witness ==
  /\ validationPc = "returned"
  /\ hasRetrySender
  /\ ~ IsValidText(rawInput)
  /\ ~ validationConfig.wrapPlainText
  /\ validationConfig.maxRetries = 2
  /\ AllRepliesInvalid
  /\ senderCalls = 2
  /\ IsValidationFailure(validationResult)

\* C13: an input that validates on the first attempt is returned as the parsed
\* envelope with zero correction-sender calls, for every maxRetries (0
\* included) and every wrapPlainText setting.
C13_ValidFirstAttemptNoSender ==
  (validationPc # "called" /\ IsValidText(rawInput)) =>
    /\ validationPc = "returned"
    /\ validationResult = rawInput.json
    /\ senderCalls = 0
    /\ senderReplies = << >>

\* C13 witness: a valid input returned under maxRetries = 0
C13_Witness ==
  /\ validationPc = "returned"
  /\ IsValidText(rawInput)
  /\ validationConfig.maxRetries = 0
  /\ hasRetrySender
  /\ validationResult = rawInput.json
  /\ senderCalls = 0

FirstValidReply(i) ==
  /\ IsValidText(senderReplies[i])
  /\ \A j \in 1 .. (i - 1) : ~ IsValidText(senderReplies[j])

\* C14: the correction loop stops at the first success: when the i-th reply is
\* the first one that validates, validateWithRetry has returned the envelope
\* parsed from that reply after exactly i sender calls.
C14_StopsAtFirstSuccess ==
  \A i \in 1 .. Len(senderReplies) :
    FirstValidReply(i) =>
      /\ validationPc = "returned"
      /\ senderCalls = i
      /\ Len(senderReplies) = i
      /\ validationResult = senderReplies[i].json

\* C14 witness: the first reply validated while a further correction was
\* still allowed, and validateWithRetry returned it after one sender call
C14_Witness ==
  /\ validationPc = "returned"
  /\ Len(senderReplies) = 1
  /\ FirstValidReply(1)
  /\ validationConfig.maxRetries = 2
  /\ senderCalls = 1
  /\ validationResult = senderReplies[1].json

\* C15: with wrapPlainText enabled and an initial input that is not JSON,
\* validateWithRetry returns a result envelope whose payload.content is the
\* raw input and payload.agent_id the given agent id, with no correction-sender
\* call, whatever maxRetries is and whether or not a sender is supplied; with
\* wrapPlainText disabled the same input is never wrapped.
C15_PlainTextWrapped ==
  (validationPc # "called" /\ ~ IsJson(rawInput)) =>
    /\ validationConfig.wrapPlainText =>
         /\ validationPc = "returned"
         /\ validationResult.type = "result"
         /\ validationResult.payload.content = rawInput
         /\ validationResult.payload.agent_id = validatedAgent
         /\ senderCalls = 0
         /\ senderReplies = << >>
    /\ (~ validationConfig.wrapPlainText /\ validationPc = "returned") =>
         validationResult # wrapAsResultMessage(rawInput, validatedAgent)

\* C15 witness: plain text wrapped although a sender and a retry budget were
\* at hand
C15_Witness ==
  /\ validationPc = "returned"
  /\ ~ IsJson(rawInput)
  /\ validationConfig.wrapPlainText
  /\ validationConfig.maxRetries > 0
  /\ hasRetrySender
  /\ validationResult = wrapAsResultMessage(rawInput, validatedAgent)
  /\ senderCalls = 0

\* C16: when the initial input is invalid and is not wrapped, and no correction
\* sender is supplied or maxRetries <= 0, validateWithRetry returns a failure
\* with code VALIDATION_ERROR carrying the agent id, and the sender is invoked
\* zero times.
C16_NoSenderOrNoBudgetFails ==
  (/\ validationPc # "called"
   /\ ~ IsValidText(rawInput)
   /\ ~ (validationConfig.wrapPlainText /\ ~ IsJson(rawInput))
   /\ (~ hasRetrySender \/ validationConfig.maxRetries <= 0)) =>
    /\ validationPc = "returned"
    /\ IsValidationFailure(validationResult)
    /\ validationResult.payload.agent_id = validatedAgent
    /\ senderCalls = 0
    /\ senderReplies = << >>

\* C16 witness: an invalid input failed at once for want of a sender, with
\* retry budget left
C16_Witness ==
  /\ validationPc = "returned"
  /\ ~ IsValidText(rawInput)
  /\ ~ validationConfig.wrapPlainText
  /\ ~ hasRetrySender
  /\ validationConfig.maxRetries > 0
  /\ IsValidationFailure(validationResult)
  /\ senderCalls = 0

\* the text the last validateMessage call was given
LastValidatedText ==
  IF senderReplies = << >> THEN rawInput ELSE senderReplies[Len(senderReplies)]

\* C17: every failing outcome of validateMessage has retryable = true: a text
\* that is not JSON fails with the "not valid JSON" error, and JSON that
\* misses a required field or carries an extra one fails with the "Message
\* validation failed" error.
C17_ValidationFailuresRetryable ==
  (validation # NoDecision) =>
    /\ ~ validation.success => validation.retryable
    /\ ~ IsJson(LastValidatedText) =>
         /\ ~ validation.success
         /\ validation.retryable
         /\ validation.error = << "Response is not valid JSON" >>
    /\ (IsJson(LastValidatedText) /\ ~ SchemaAccepts(LastValidatedText.json)) =>
         /\ ~ validation.success
         /\ validation.retryable
         /\ validation.error = << "Message validation failed" >>

\* C17 witness: an envelope with an extra field has been refused
C17_Witness ==
  /\ validation # NoDecision
  /\ IsJson(LastValidatedText)
  /\ "extra" \in DOMAIN LastValidatedText.json
  /\ ~ validation.success
  /\ validation.retryable

(***************************************************************************)
(* Properties of the error paths of dispatchToAgent (Spec).                *)
(***************************************************************************)
ReturnedEnvelope == dispatchResult.json

\* a serialized envelope: JSON text of a record with type, timestamp, payload
IsSerializedEnvelope(text) ==
  /\ IsJson(text)
  /\ { "type", "timestamp", "payload" } \subseteq DOMAIN text.json
  /\ text.json.type \in MessageTypes

\* the flow is at its call, at one of its awaits, or has returned
C18_NeverThrownState ==
  /\ pc \in { "called", "create", "prompt", "correction", "done" }
  /\ pc # "done" => dispatchResult = Null
  /\ pc = "done" => IsSerializedEnvelope(dispatchResult)
  \* the number of worker-client calls is bounded: the flow cannot go on for ever
  /\ sessionsCreated <= 1 + AutonomyConfigOf(ctx).maxRetries
  /\ promptsSent <=
       (1 + AutonomyConfigOf(ctx).maxRetries) * (1 + ctx.validationConfig.maxRetries)
  \* the error paths before the execution
  /\ (pc = "done" /\ Task = Null) =>
       /\ ReturnedEnvelope.type = "failure"
       /\ ReturnedEnvelope.payload.code = "VALIDATION_ERROR"
  /\ (pc = "done" /\ Task # Null /\ Task.payload.agent_id \notin ctx.agents) =>
       ReturnedEnvelope.type = "failure"
  /\ (pc = "done" /\ decision = "block") => ReturnedEnvelope.type = "failure"

\* a step that returns after a throw, after a session creation without id, or
\* with something else than the worker's own envelope or its wrapped text,
\* returns a failure
C18_ErrorStepReturnsFailure ==
  /\ WorkerClientThrows =>
       (pc' = "done" /\ IsSerializedEnvelope(dispatchResult')
          /\ dispatchResult'.json.type = "failure")
  /\ (pc = "create" /\ pc' = "done") => dispatchResult'.json.type = "failure"
  /\ (pc \in { "prompt", "correction" } /\ pc' = "done") =>
       \/ dispatchResult'.json.type = "failure"
       \/ dispatchResult'.json \in WorkerEnvelopes
       \/ \E t \in WorkerTexts :
            dispatchResult'.json = wrapAsResultMessage(t, Task.payload.agent_id)

\* C18: dispatchToAgent never throws to its caller: for every input string and
\* every worker-client behaviour (session creation without id, a throwing
\* call, empty or malformed output) it is at an await or has returned a
\* serialized envelope, the number of worker-client calls it can make is
\* bounded, and every error path returns a serialized failure envelope.
C18_NeverThrows == [] C18_NeverThrownState /\ [][C18_ErrorStepReturnsFailure]_vars

\* C18 witness: the prompt threw during a retry re-execution and the call
\* returned a failure
C18_Witness ==
  /\ pc = "done"
  /\ retryPc = "thrown"
  /\ promptsSent > 1
  /\ IsSerializedEnvelope(dispatchResult)
  /\ ReturnedEnvelope.type = "failure"

TimeoutFailure ==
  createFailureMessageNoCause("TIMEOUT", << "Request timed out or was cancelled" >>)

\* a throw with the signal set returns TIMEOUT; a throw with the signal not set
\* returns AGENT_ERROR with the exception's message as cause; a step that
\* returns without a throw never returns the TIMEOUT failure of the catch
C19_AbortStep ==
  /\ (WorkerClientThrows /\ aborted) =>
       (pc' = "done" /\ dispatchResult' = JsonStringify(TimeoutFailure))
  /\ (WorkerClientThrows /\ ~ aborted) =>
       /\ pc' = "done"
       /\ dispatchResult'.json.type = "failure"
       /\ dispatchResult'.json.payload.code = "AGENT_ERROR"
       /\ dispatchResult'.json.payload.cause = << "Agent crashed" >>
  /\ (/\ aborted
      /\ pc # "done"
      /\ pc' = "done"
      /\ DispatchToAgent \/ SessionCreateResolves \/ PromptResolves \/ CorrectionResolves) =>
       /\ dispatchResult' # JsonStringify(TimeoutFailure)
       /\ (pc \in { "prompt", "correction" } /\ dispatchResult'.json.type # "failure") =>
            \/ dispatchResult'.json \in WorkerEnvelopes
            \/ \E t \in WorkerTexts :
                 dispatchResult'.json = wrapAsResultMessage(t, Task.payload.agent_id)

\* C19: the abort signal is consulted only when an exception reaches the catch
\* of dispatchToAgent: an exception with the signal set yields the TIMEOUT
\* failure, an exception with the signal not set yields an AGENT_ERROR failure
\* whose cause is the exception's message, and a set signal without an
\* exception leaves the worker's validated result as it is.
C19_AbortOnlyInCatch == [][C19_AbortStep]_vars

\* C19 witness: with the signal set, the worker's valid answer was returned
C19_Witness ==
  /\ pc = "done"
  /\ aborted
  /\ ReturnedEnvelope.type = "answer"
  /\ ReturnedEnvelope \in WorkerEnvelopes

UnknownAgentFailure ==
  createFailureMessage("UNKNOWN_AGENT",
                       << "Unknown agent: ", Task.payload.agent_id >>,
                       << "Available agents: ", ctx.agents >>)

\* C20: a valid task whose agent_id is not in the registry is answered with
\* the UNKNOWN_AGENT failure whose cause lists all registered agent ids, with
\* no worker-client call, and before the gate: the answer is UNKNOWN_AGENT,
\* never AUTONOMY_BLOCKED or an escalation, also when the prompt would be
\* classified dangerous.
C20_UnknownAgentBeforeGate ==
  (pc # "called" /\ Task # Null /\ Task.payload.agent_id \notin ctx.agents) =>
    /\ pc = "done"
    /\ dispatchResult = JsonStringify(UnknownAgentFailure)
    /\ ReturnedEnvelope.type = "failure"
    /\ ReturnedEnvelope.payload.code = "UNKNOWN_AGENT"
    /\ ReturnedEnvelope.payload.cause = << "Available agents: ", RegisteredAgents >>
    /\ WorkerClientCalls = 0
    /\ classification = "none"
    /\ decision = "none"

\* C20 witness: an unregistered agent asked to delete, under supervised
C20_Witness ==
  /\ pc = "done"
  /\ Task # Null
  /\ Task.payload.agent_id \notin ctx.agents
  /\ classifyAction(Task, ctx.agents) = "dangerous"
  /\ AutonomyConfigOf(ctx).level = "supervised"
  /\ ReturnedEnvelope.payload.code = "UNKNOWN_AGENT"
  /\ WorkerClientCalls = 0

(***************************************************************************)
(* Properties of the gate enforcer and the classifier (GateSpec).          *)
(***************************************************************************)
\* the calls of enforcePreDispatchGate made so far
GateCalls == { gateLog[i] : i \in 1 .. Len(gateLog) }

\* C21: every enforcePreDispatchGate call answers allowed exactly when the
\* decision is proceed; require_approval and an unrecognized decision give
\* allowed = false with an escalation; block gives allowed = false with a
\* failure of code AUTONOMY_BLOCKED whose payload.agent_id is the target agent.
C21_AllowedIffProceed ==
  \A call \in GateCalls :
    /\ call.result.allowed <=> call.ctx.decision = "proceed"
    /\ call.ctx.decision \in { "require_approval", UnrecognizedDecision }
         => /\ ~ call.result.allowed
            /\ call.result.response.type = "escalation"
    /\ call.ctx.decision = "block"
         => /\ ~ call.result.allowed
            /\ call.result.response.type = "failure"
            /\ call.result.response.payload.code = "AUTONOMY_BLOCKED"
            /\ call.result.response.payload.agent_id = call.ctx.task.payload.agent_id

\* the enforcer has been called with an unrecognized decision and has answered
\* with an escalation
C21_Witness ==
  \E call \in GateCalls :
    /\ call.ctx.decision = UnrecognizedDecision
    /\ ~ call.result.allowed
    /\ call.result.response.type = "escalation"

\* the values of the options of an escalation, in their order
OptionValues(escalation) ==
  [ i \in 1 .. Len(escalation.payload.options) |-> escalation.payload.options[i].value ]

\* C22: every call of enforcePreDispatchGate with a require_approval decision
\* gives decision_id = "approval-" + task.session_id and the options approve,
\* reject, approve_all in that order, so two calls on the same task agree on
\* both; two calls on tasks with different session ids get different decision
\* ids.
C22_ApprovalRederivable ==
  \A i, j \in 1 .. Len(gateLog) :
    LET first == gateLog[i]
        second == gateLog[j]
    IN  first.ctx.decision = "require_approval" /\ second.ctx.decision = "require_approval"
          => /\ first.result.response.payload.decision_id
                  = << "approval-", first.ctx.task.session_id >>
             /\ OptionValues(first.result.response) = << "approve", "reject", "approve_all" >>
             /\ first.ctx.task = second.ctx.task
                  => /\ first.result.response.payload.decision_id
                          = second.result.response.payload.decision_id
                     /\ first.result.response.payload.options
                          = second.result.response.payload.options
             /\ first.ctx.task.session_id # second.ctx.task.session_id
                  => first.result.response.payload.decision_id
                       # second.result.response.payload.decision_id

\* the enforcer has been called twice on the same task with require_approval,
\* at two readings of the clock
C22_Witness ==
  /\ Len(gateLog) = 2
  /\ gateLog[1].ctx.decision = "require_approval"
  /\ gateLog[1].ctx.task = gateLog[2].ctx.task
  /\ gateLog[1].result.response.type = "escalation"
  /\ gateLog[1].result.response.timestamp # gateLog[2].result.response.timestamp
  /\ gateLog[1].result.response.payload.decision_id
       = gateLog[2].result.response.payload.decision_id

\* schemas ResponseEnvelopeSchema: a strict object whose only envelope field is
\* timestamp; a variant adds type and payload
ResponseEnvelopeSchema(envelope) ==
  DOMAIN envelope = { "type", "timestamp", "payload" }

\* C23: every escalation or failure envelope the gate enforcer builds has
\* exactly the top-level fields type, timestamp and payload, and so is accepted
\* by the strict response-envelope schema.
C23_GateResponsesCarryNoSessionId ==
  \A call \in GateCalls :
    ~ call.result.allowed
      => /\ DOMAIN call.result.response = { "type", "timestamp", "payload" }
         /\ ResponseEnvelopeSchema(call.result.response)

\* the enforcer has built an escalation and it carries the session_id of the
\* task
C23_Witness ==
  \E call \in GateCalls :
    /\ ~ call.result.allowed
    /\ call.result.response.type = "escalation"
    /\ "session_id" \in DOMAIN call.result.response
    /\ call.result.response.session_id = call.ctx.task.session_id

(***************************************************************************)
(* Properties of the envelopes and the worker calls of dispatchToAgent     *)
(* (Spec).                                                                 *)
(***************************************************************************)
\* C24: every envelope dispatchToAgent returns has a type among the response
\* variants (answer, plan, question, escalation, failure, checkpoint, result),
\* whatever the worker wrote, a schema-valid request envelope included.
C24_ReturnsResponseVariant ==
  pc = "done" => ReturnedEnvelope.type \in ResponseTypes

\* the worker answered the prompt with a schema-valid task envelope and the
\* dispatch has returned that envelope
C24_Witness ==
  /\ pc = "done"
  /\ promptsSent = 1
  /\ ReturnedEnvelope \in WorkerEnvelopes
  /\ ReturnedEnvelope.type = "task"

HasParentSession == Task # Null /\ "parent_session_id" \in DOMAIN Task.payload

\* the failure executeDispatch returns when session.create gives no id
SessionNotFoundFailure ==
  createFailureMessage("SESSION_NOT_FOUND", << "Failed to create session" >>,
                       << "Session creation returned no ID" >>)

\* C25: once the gate has let the task through, with parent_session_id no
\* session is ever created and every prompt of the execution (the prompt and its
\* correction re-prompts) goes to the parent session; without it each execution
\* creates exactly one session and sends every prompt of the execution to the
\* session that creation returned; a creation without id makes the execution
\* return the SESSION_NOT_FOUND failure with no prompt sent, and the retry loop
\* returns that failure without another execution.
C25_SessionHandling ==
  /\ (decision = "proceed" /\ HasParentSession) =>
       /\ sessionsCreated = 0
       /\ \A i \in 1 .. Len(promptedSessions) :
            promptedSessions[i] = Task.payload.parent_session_id
  /\ (decision = "proceed" /\ ~ HasParentSession) =>
       /\ sessionsCreated = 1 + attempts
       /\ \A i \in 1 .. Len(promptedSessions) :
            promptedSessions[i] = "session-" \o ToString(sessionsCreated)
  /\ pc \in { "prompt", "correction" } => Len(promptedSessions) = 1 + correctionAttempts
  /\ pc = "create" => promptedSessions = << >>
  /\ currentFailure = SessionNotFoundFailure =>
       /\ pc = "done"
       /\ retryPc = "returned"
       /\ ReturnedEnvelope = SessionNotFoundFailure
       /\ promptedSessions = << >>
       /\ sessionsCreated = 1 + attempts

\* the second execution of a dispatch (a retry with budget left) got no session
\* id: SESSION_NOT_FOUND was returned and no prompt was sent in that execution
C25_Witness ==
  /\ pc = "done"
  /\ currentFailure = SessionNotFoundFailure
  /\ attempts = 1
  /\ maxRetries = 2
  /\ sessionsCreated = 2
  /\ promptsSent >= 2
  /\ promptedSessions = << >>

\* the failure executeDispatch returns for an empty collected text
EmptyResponseFailure ==
  createFailureMessage("AGENT_ERROR", << "Agent returned empty response" >>,
                       << "Agent ", Task.payload.agent_id, " produced no text output" >>)

\* C26: an empty collected text makes the execution return the AGENT_ERROR
\* failure with a single prompt sent and no correction prompt; as long as the
\* worker has answered every prompt with an empty text no correction prompt is
\* ever sent, each execution sends one prompt, and when dispatchToAgent then
\* returns that failure (under assisted or autonomous, the only levels that
\* execute) the worker has been prompted exactly 1 + autonomyConfig.maxRetries
\* times.
C26_EmptyTextIsAgentError ==
  /\ (pc = "done" /\ Task # Null /\ ReturnedEnvelope = EmptyResponseFailure) =>
       /\ Len(promptedSessions) = 1
       /\ correctionAttempts = 0
  /\ (workerAlwaysEmpty /\ decision = "proceed") =>
       /\ pc # "correction"
       /\ correctionAttempts = 0
       /\ promptsSent <= 1 + attempts
  /\ (pc = "done" /\ Task # Null /\ workerAlwaysEmpty
        /\ ReturnedEnvelope = EmptyResponseFailure) =>
       /\ AutonomyConfigOf(ctx).level \in { "assisted", "autonomous" }
       /\ attempts = AutonomyConfigOf(ctx).maxRetries
       /\ promptsSent = 1 + AutonomyConfigOf(ctx).maxRetries

\* a worker that answered every prompt with an empty text has been prompted
\* three times under maxRetries = 2, and AGENT_ERROR has been returned
C26_Witness ==
  /\ pc = "done"
  /\ Task # Null
  /\ workerAlwaysEmpty
  /\ ReturnedEnvelope = EmptyResponseFailure
  /\ AutonomyConfigOf(ctx).maxRetries = 2
  /\ ctx.validationConfig.maxRetries > 0
  /\ promptsSent = 3

\* C27: classifyAction is first-match-wins over (dangerous pattern, dangerous
\* agent, significant agent, significant pattern, routine agent, default): a
\* prompt with the dangerous word "Delete" is dangerous for every agent, a
\* routine agent included and with the significant word "fix" present as well;
\* without a dangerous word a significant agent is significant, a routine or
\* unknown agent with "fix" is significant, and a routine or unknown agent with
\* no pattern is routine.
C27_ClassifyPriority ==
  classifiedTask # Null =>
    LET agent == classifiedTask.payload.agent_id
        prompt == classifiedTask.payload.prompt
    IN  /\ "Delete" \in prompt => taskClassification = "dangerous"
        /\ ("Delete" \notin prompt /\ agent = "coder") => taskClassification = "significant"
        /\ ("Delete" \notin prompt /\ "fix" \in prompt /\ agent \in { "researcher", "ghost" })
             => taskClassification = "significant"
        /\ (prompt = { } /\ agent \in { "researcher", "ghost" })
             => taskClassification = "routine"

\* a task for a routine agent whose prompt holds both a dangerous and a
\* significant word has been classified dangerous
C27_Witness ==
  /\ classifiedTask # Null
  /\ classifiedTask.payload.agent_id = "researcher"
  /\ classifiedTask.payload.prompt = { "Delete", "fix" }
  /\ taskClassification = "dangerous"

C29_EntriesAreUnresolved ==
  \A requestID \in DOMAIN pending : promises[pending[requestID]].status = "waiting"

\* a handler run for a registered id removes the entry and resolves the promise
\* that was registered under it
C29_HandlerStep ==
  /\ \A requestID \in QuestionIds, answers \in QuestionAnswers :
       (requestID \in DOMAIN pending /\ handleQuestionReplied(requestID, answers)) =>
         /\ requestID \notin DOMAIN pending'
         /\ promises'[pending[requestID]] =
              [ status |-> "resolved",
                result |-> [ type |-> "answered", answers |-> answers ] ]
  /\ \A requestID \in QuestionIds :
       (requestID \in DOMAIN pending /\ handleQuestionRejected(requestID)) =>
         /\ requestID \notin DOMAIN pending'
         /\ promises'[pending[requestID]] =
              [ status |-> "resolved", result |-> [ type |-> "rejected" ] ]

\* C29: the pending-question registry keeps no entry past its resolution: every
\* entry names a waiting promise, and handleQuestionReplied(id, answers) or
\* handleQuestionRejected(id) for a registered id leaves the map without an
\* entry for id and the promise resolved with 'answered' and the answers, or
\* with 'rejected'.
C29_NoEntryOutlivesResolution ==
  [] C29_EntriesAreUnresolved /\ [][C29_HandlerStep]_vars

\* one question has been answered and another rejected; neither promise is in
\* the map any more
C29_Witness ==
  /\ \E call \in 1 .. Len(promises) :
       /\ promises[call].status = "resolved"
       /\ promises[call].result.type = "answered"
  /\ \E call \in 1 .. Len(promises) :
       /\ promises[call].status = "resolved"
       /\ promises[call].result.type = "rejected"
  /\ \A requestID \in DOMAIN pending : promises[pending[requestID]].status = "waiting"

(***************************************************************************)
(* Properties of dispatches in flight together (ConcurrentSpec).           *)
(***************************************************************************)
\* C30: dispatches running concurrently are independent: under every
\* interleaving of their awaits, two calls with the same task and context whose
\* worker-client calls got the same replies have the same attempt counter,
\* current failure, position and result, whatever the other call did in
\* between; and each call makes at most its own maxRetries re-executions.
C30_DispatchesIndependent ==
  /\ \A d \in Dispatchers :
       /\ dispatches[d].attempts <= dispatches[d].autonomyConfig.maxRetries
       /\ dispatches[d].pc = "called" => workerReplies[d] = << >>
  /\ \A d, e \in Dispatchers :
       ( /\ dispatches[d].pc # "called"
         /\ dispatches[e].pc # "called"
         /\ dispatches[d].task = dispatches[e].task
         /\ dispatches[d].autonomyConfig = dispatches[e].autonomyConfig
         /\ workerReplies[d] = workerReplies[e] )
       => dispatches[d] = dispatches[e]

\* two calls with the same task and context: the first has used its retry and
\* returned, the second is still suspended at the prompt of its first
\* execution
C30_Witness ==
  /\ dispatches[1].task = dispatches[2].task
  /\ dispatches[1].autonomyConfig = dispatches[2].autonomyConfig
  /\ dispatches[1].autonomyConfig.maxRetries = 1
  /\ dispatches[1].pc = "done"
  /\ dispatches[1].attempts = 1
  /\ dispatches[2].pc = "prompt"
  /\ dispatches[2].attempts = 0


(***************************************************************************)
(* Properties of mergeAgentConfigs (MergeSpec).                            *)
(***************************************************************************)
\* the user config sets disable: true for the agent
UserDisables(id) ==
  /\ mergeUserAgents.given
  /\ id \in DOMAIN mergeUserAgents.agents
  /\ Disabled(mergeUserAgents.agents[id])

\* the agent ids of the two arguments
MergeInputIds ==
  DOMAIN mergeDefaults \cup
  (IF mergeUserAgents.given THEN DOMAIN mergeUserAgents.agents ELSE { })

EarlierExecutorResults == { executorLog[i] : i \in 1 .. Len(executorLog) - 1 }

\* C32: executeWithRetry short-circuits on the first success: the executor is
\* never invoked again after a non-failure result; under assisted or autonomous,
\* after a retryable initial failure, while the executor has returned k failures
\* with retryable codes and k < maxRetries the loop has not returned (invocation
\* k+1 is made); and when invocation k+1 returns a non-failure envelope,
\* executeWithRetry returns that envelope after exactly k+1 invocations.
C32_ShortCircuitOnFirstSuccess ==
  /\ \A r \in EarlierExecutorResults : IsFailure(r)
  /\ (autonomyLevel \in { "assisted", "autonomous" } /\ IsRetryableFailure(failure)) =>
       /\ (ExecutorAlwaysFailedRetryably /\ Len(executorLog) < maxRetries) =>
            /\ retryPc # "returned"
            /\ retryPc = "executing" => executorCalls = Len(executorLog) + 1
       /\ (Len(executorLog) > 0 /\ ~ IsFailure(executorLog[Len(executorLog)])) =>
            /\ retryPc = "returned"
            /\ retryResult = executorLog[Len(executorLog)]
            /\ executorCalls = Len(executorLog)
            /\ executorCalls <= maxRetries

\* a run under assisted with a budget of three whose executor failed retryably
\* once and then succeeded: two invocations
C32_Witness ==
  /\ retryPc = "returned"
  /\ autonomyLevel = "assisted"
  /\ maxRetries = 3
  /\ Len(executorLog) = 2
  /\ IsRetryableFailure(executorLog[1])
  /\ ~ IsFailure(executorLog[2])
  /\ retryResult = executorLog[2]
  /\ executorCalls = 2

(***************************************************************************)
(* Properties of the worker-client calls of one dispatch (Spec).           *)
(***************************************************************************)
\* the session.create and session.prompt calls made so far
WorkerCallsSent == sessionsCreated + promptsSent

\* the calls made and not yet answered
WorkerCallsInFlight == WorkerCallsSent - repliesReceived

\* dispatchToAgent is waiting for the worker client
AwaitingWorker == pc \in { "create", "prompt", "correction" }

\* C33: the attempts of one dispatch are strictly sequential: at most one
\* worker-client call is in flight at any time, one is in flight exactly while
\* the dispatch awaits it (so a retry re-execution or a correction re-prompt is
\* sent only once every earlier call has been answered), and neither loop goes
\* round more often than its maxRetries: attempts never exceeds
\* autonomyConfig.maxRetries, correctionAttempts never exceeds
\* validationConfig.maxRetries.
C33_AttemptsSequential ==
  /\ WorkerCallsInFlight \in { 0, 1 }
  /\ (WorkerCallsInFlight = 1) <=> AwaitingWorker
  /\ attempts <= AutonomyConfigOf(ctx).maxRetries
  /\ correctionAttempts <= ctx.validationConfig.maxRetries

\* a dispatch in its second retry re-execution, awaiting the reply to its
\* second correction re-prompt, every earlier call answered
C33_Witness ==
  /\ pc = "correction"
  /\ attempts = 2
  /\ correctionAttempts = 2
  /\ WorkerCallsSent >= 6
  /\ WorkerCallsInFlight = 1

\* an event for the question of the call-th askQuestion call has been handled
\* since the server created the question
QuestionAnswered(call) == call \in DOMAIN questions /\ questions[call].answered

\* the promise of the call-th askQuestion call has been resolved
PromiseResolved(call) == call \in DOMAIN promises /\ promises[call].status = "resolved"

\* C34: every askQuestion call whose question has been answered or rejected
\* (a handler was called with its id after the server created it) eventually
\* has its promise resolved, whatever the order of the event and the
\* continuation of askQuestion.
C34_AnsweredQuestionResolves ==
  \A call \in 1 .. MaxQuestions : [] (QuestionAnswered(call) => <> PromiseResolved(call))

\* the event for a question was handled before askQuestion registered it: the
\* entry is in the map, its promise waits, and the event is spent
C34_Witness ==
  \E call \in 1 .. Len(promises) :
    /\ questions[call].answered
    /\ promises[call].status = "waiting"
    /\ questions[call].questionId \in DOMAIN pending
    /\ pending[questions[call].questionId] = call

\* the step is a handler called with an id that has no entry in the map
UnregisteredEventStep ==
  \E requestID \in QuestionIds \ DOMAIN pending :
    \/ handleQuestionRejected(requestID)
    \/ \E answers \in QuestionAnswers : handleQuestionReplied(requestID, answers)

\* what one step may do to the promises and the map
C35_Step ==
  /\ \A call \in 1 .. Len(promises) :
       /\ promises[call].status = "resolved" => promises'[call] = promises[call]
       /\ (promises[call].status # "resolved" /\ promises'[call].status = "resolved") =>
            /\ promises[call].status = "waiting"
            /\ \E requestID \in DOMAIN pending :
                 /\ pending[requestID] = call
                 /\ pending' = MapDelete(pending, requestID)
            /\ \A other \in 1 .. Len(promises) :
                 other # call => promises'[other] = promises[other]
       /\ (promises[call].status # "thrown" /\ promises'[call].status = "thrown") =>
            pending' = pending
  /\ UnregisteredEventStep => (pending' = pending /\ promises' = promises)

\* C35: each pending question is resolved at most once: a promise is resolved
\* only by an event for the id it is registered under, which removes the entry
\* and touches no other promise; a resolved promise never changes again; an event
\* for an id without an entry (already resolved, or never registered) changes
\* neither the map nor any promise; and an askQuestion call that gets no id
\* throws and leaves the map as it was.
C35_ResolvedAtMostOnce == [][C35_Step]_vars

\* one question resolved and gone from the map, one call thrown for want of an
\* id, one question still registered and waiting
C35_Witness ==
  /\ \E call \in 1 .. Len(promises) :
       /\ promises[call].status = "resolved"
       /\ questions[call].questionId \notin DOMAIN pending
  /\ \E call \in 1 .. Len(promises) :
       /\ promises[call].status = "thrown"
       /\ questions[call].questionId = "none"
  /\ \E call \in 1 .. Len(promises) :
       /\ promises[call].status = "waiting"
       /\ questions[call].questionId \in DOMAIN pending

(***************************************************************************)
(* Properties of the plugin's event hook (EventSpec).                      *)
(***************************************************************************)
\* the event is not of a sub-session
TopLevelEvent(props) == ParentIDOf(props) = Undefined

\* the events delivered so far hold one that is not of a sub-session
SomeTopLevelEventDelivered ==
  \E i \in 1 .. Len(deliveredEvents) : TopLevelEvent(deliveredEvents[i])

\* how often the callback has been handed to setTimeout
TimesScheduled(callback) ==
  Cardinality({ i \in 1 .. Len(scheduled) : scheduled[i] = callback })

\* C36: over any sequence of events the update notifier is scheduled at most
\* once, and it is scheduled (and the flag set) exactly when an event that is
\* not of a sub-session has been delivered: sub-session events before it neither
\* schedule anything nor use up the flag.  The config-error toast is scheduled
\* with it, once, when loading the config failed, and never otherwise.
C36_NotifierScheduledOnce ==
  /\ TimesScheduled("runUpdateNotifier") = (IF SomeTopLevelEventDelivered THEN 1 ELSE 0)
  /\ TimesScheduled("showToast") =
       (IF SomeTopLevelEventDelivered /\ configLoadError # Undefined THEN 1 ELSE 0)
  /\ hasRunUpdateNotifier <=> SomeTopLevelEventDelivered
  /\ ran <= Len(scheduled)

\* two sub-session events came first, then a top-level one that scheduled toast
\* and notifier, then another top-level one that scheduled nothing
C36_Witness ==
  /\ Len(deliveredEvents) = 4
  /\ ~ TopLevelEvent(deliveredEvents[1])
  /\ ~ TopLevelEvent(deliveredEvents[2])
  /\ TopLevelEvent(deliveredEvents[3])
  /\ TopLevelEvent(deliveredEvents[4])
  /\ scheduled = << "showToast", "runUpdateNotifier" >>
  /\ ran = 2

(***************************************************************************)
(* Properties of the two retry layers together (Spec).                     *)
(***************************************************************************)
\* (1 + autonomyConfig.maxRetries) * (1 + validationConfig.maxRetries)
PromptBudget == (1 + AutonomyConfigOf(ctx).maxRetries) * (1 + ctx.validationConfig.maxRetries)

\* C37: the retry layers nest multiplicatively: no execution sends more than
\* (1 + autonomyConfig.maxRetries) * (1 + validationConfig.maxRetries) prompts;
\* with a proceed gate under assisted or autonomous, wrapPlainText disabled, and
\* a worker that answered every call and whose every text was non-empty and
\* failed validation, the dispatch has sent exactly that many prompts when it
\* returns, and returns a VALIDATION_ERROR failure.
C37_RetryLayersMultiply ==
  /\ promptsSent <= PromptBudget
  /\ (pc = "done" /\ Task # Null /\ decision = "proceed"
        /\ AutonomyConfigOf(ctx).level \in { "assisted", "autonomous" }
        /\ ~ ctx.validationConfig.wrapPlainText
        /\ workerAlwaysInvalid) =>
       /\ promptsSent = PromptBudget
       /\ ReturnedEnvelope.type = "failure"
       /\ ReturnedEnvelope.payload.code = "VALIDATION_ERROR"

\* budgets of two and two, every reply invalid: nine prompts, then the failure
C37_Witness ==
  /\ pc = "done"
  /\ Task # Null
  /\ decision = "proceed"
  /\ AutonomyConfigOf(ctx).level = "assisted"
  /\ AutonomyConfigOf(ctx).maxRetries = 2
  /\ ctx.validationConfig.maxRetries = 2
  /\ ~ ctx.validationConfig.wrapPlainText
  /\ workerAlwaysInvalid
  /\ promptsSent = 9
  /\ ReturnedEnvelope.payload.code = "VALIDATION_ERROR"

(***************************************************************************)
(* Properties of exceptions from the worker client (Spec).                 *)
(***************************************************************************)
\* the step is session.create or the prompt send of an execution throwing
ExecutionThrowsStep == pc \in { "create", "prompt" } /\ WorkerClientThrows

\* the retry budget is not used up and the level retries AGENT_ERROR
RetryBudgetRemains ==
  /\ AutonomyConfigOf(ctx).level \in { "assisted", "autonomous" }
  /\ attempts < AutonomyConfigOf(ctx).maxRetries

\* what the step of a throwing call does
C38_ThrowStep ==
  ExecutionThrowsStep =>
    /\ pc' = "done"
    /\ sessionsCreated' = sessionsCreated
    /\ promptsSent' = promptsSent
    /\ dispatchResult'.json.type = "failure"
    /\ dispatchResult'.json.payload.code = (IF aborted THEN "TIMEOUT" ELSE "AGENT_ERROR")
    /\ << attempts', executorCalls', currentFailure' >> =
         << attempts, executorCalls, currentFailure >>

\* C38: an exception is never retried: when session.create or the prompt send
\* throws, in the first execution or in a retry re-execution, that step ends
\* the dispatch with a TIMEOUT (signal set) or AGENT_ERROR failure, sends no
\* worker-client call and leaves the retry loop's locals as they were, whatever
\* budget remains; and a dispatch that has returned has no call in flight and
\* makes none.
C38_ExceptionNeverRetried ==
  /\ [] (pc = "done" => WorkerCallsInFlight = 0)
  /\ [][C38_ThrowStep]_vars
  /\ [][pc = "done" => WorkerCallsSent' = WorkerCallsSent]_vars

\* a retry re-execution under assisted threw with budget left: one retry made
\* of two, and the dispatch has returned the AGENT_ERROR built from the exception
C38_Witness ==
  /\ pc = "done"
  /\ retryPc = "thrown"
  /\ AutonomyConfigOf(ctx).level = "assisted"
  /\ AutonomyConfigOf(ctx).maxRetries = 2
  /\ attempts = 1
  /\ RetryBudgetRemains
  /\ ~ aborted
  /\ ReturnedEnvelope.payload.code = "AGENT_ERROR"
  /\ ReturnedEnvelope.payload.message = << "Agent execution failed" >>

(***************************************************************************)
(* Properties of the supervised level (Spec).                              *)
(***************************************************************************)
\* the dispatch runs under supervised: by its context, or by the process-wide
\* default when the context has no autonomyConfig
UnderSupervised ==
  IF "autonomyConfig" \in DOMAIN ctx THEN ctx.autonomyConfig.level = "supervised" ELSE TRUE

\* C39: under supervised, given in the context or taken from the default when
\* ctx.autonomyConfig is absent, dispatchToAgent never calls the worker client,
\* and a valid task to a registered agent is answered with the approval
\* escalation when it is routine or significant and with the AUTONOMY_BLOCKED
\* failure when it is dangerous.
C39_SupervisedNeverDispatches ==
  UnderSupervised =>
    /\ pc \in { "called", "done" }
    /\ sessionsCreated = 0
    /\ promptsSent = 0
    /\ (pc = "done" /\ ValidRegisteredTask) =>
         IF classifyAction(Task, ctx.agents) = "dangerous"
         THEN /\ ReturnedEnvelope.type = "failure"
              /\ ReturnedEnvelope.payload.code = "AUTONOMY_BLOCKED"
         ELSE /\ classifyAction(Task, ctx.agents) \in { "routine", "significant" }
              /\ ReturnedEnvelope.type = "escalation"
              /\ ReturnedEnvelope.payload.decision_id = << "approval-", Task.session_id >>

\* a routine task under the default level (no autonomyConfig in the context)
\* has been answered with the escalation
C39_Witness ==
  /\ "autonomyConfig" \notin DOMAIN ctx
  /\ pc = "done"
  /\ ValidRegisteredTask
  /\ classifyAction(Task, ctx.agents) = "routine"
  /\ ReturnedEnvelope.type = "escalation"
  /\ sessionsCreated + promptsSent = 0

(***************************************************************************)
(* Properties of the sessions of the retry re-executions (Spec).           *)
(***************************************************************************)
\* the ids of the sessions created before the newest one
EarlierSessions == { "session-" \o ToString(n) : n \in 1 .. sessionsCreated - 1 }

\* the step starts a retry re-execution
ReExecutionStarts == attempts' = attempts + 1

\* the step sends a correction re-prompt
CorrectionSent == pc' = "correction" /\ promptsSent' = promptsSent + 1

\* what the sessions are in every state
C40_Sessions ==
  /\ sessionsCreated <= 1 + AutonomyConfigOf(ctx).maxRetries
  /\ HasParentSession => sessionsCreated = 0
  /\ (~ HasParentSession /\ pc \in { "prompt", "correction" }) =>
       /\ sessionId = "session-" \o ToString(sessionsCreated)
       /\ sessionId \notin EarlierSessions
       /\ \A i \in 1 .. Len(promptedSessions) : promptedSessions[i] \notin EarlierSessions

\* what a step that starts a re-execution or sends a correction does
C40_Step ==
  /\ (ReExecutionStarts /\ ~ HasParentSession) =>
       /\ sessionsCreated' = sessionsCreated + 1
       /\ promptsSent' = promptsSent
       /\ pc' = "create"
       /\ sessionId' = "none"
  /\ (ReExecutionStarts /\ HasParentSession) =>
       /\ sessionsCreated' = 0
       /\ pc' = "prompt"
       /\ sessionId' = Task.payload.parent_session_id
  /\ CorrectionSent =>
       /\ sessionId' = sessionId
       /\ promptedSessions'[Len(promptedSessions')] = sessionId
       /\ sessionsCreated' = sessionsCreated

\* C40: for a task without parent_session_id every retry re-execution begins by
\* creating a session of its own: the session of the failed attempt is dropped,
\* the prompt and the correction re-prompts of an attempt go to the session that
\* attempt created and to none created earlier, and one dispatch creates at most
\* 1 + autonomyConfig.maxRetries sessions; for a task with parent_session_id no
\* attempt creates a session and each starts by prompting the parent session.
C40_FreshSessionPerAttempt == [] C40_Sessions /\ [][C40_Step]_vars

\* the third attempt of a task without parent session, budget two: three
\* sessions created, a correction re-prompt waiting in the third
C40_Witness ==
  /\ ~ HasParentSession
  /\ Task # Null
  /\ attempts = 2
  /\ AutonomyConfigOf(ctx).maxRetries = 2
  /\ sessionsCreated = 3
  /\ pc = "correction"
  /\ sessionId = "session-3"
  /\ promptedSessions = << "session-3", "session-3" >>
=============================================================================
